---- MODULE Spec2Model ----
(***************************************************************************)
(* opencode-to-ccusage: the export pipeline (runExport), the retry wrapper *)
(* around the subprocess exporter (exportSessionWithRetry) and the         *)
(* converter (convertSession), as state machines and operators.            *)
(*                                                                         *)
(* Instants are modelled in whole calendar years (the year number) rather  *)
(* than in milliseconds since the epoch: it keeps the three outcomes of    *)
(* Date.prototype.toISOString (4-digit year, signed 6-digit year,          *)
(* RangeError) inside TLC's integers.                                      *)
(***************************************************************************)
EXTENDS Integers, Sequences, FiniteSets, TLC

\* ------------------------------------------------------------------ bounds

\* Largest number of discovered sessions in the unrestricted scenarios.
MaxSessions == 2

\* Number of discovered sessions in the large-batch scenarios.
BatchSize == 12

\* Largest maxRetries passed to exportSessionWithRetry on its own.
MaxRetriesBound == 3

\* Largest concurrency override and largest CPU count considered.
MaxOverride == 3

MaxCpus == 17

\* Longest content of the temp file of an export, in characters.
MaxContentLen == 4

\* Largest number of messages of an export handed to convertSession.
MaxMessages == 3

\* --------------------------------------------------------------- utilities

Min(a, b) == IF a < b THEN a ELSE b

Max(a, b) == IF a > b THEN a ELSE b

\* ------------------------------------------------------------ src/utils.ts

\* Date range of ECMAScript, in years: new Date(x).toISOString() throws a
\* RangeError outside it.
MIN_ISO_YEAR == -271821

MAX_ISO_YEAR == 275760

\* The decimal digits of n >= 0, most significant first, padded to width w.
RECURSIVE Digits(_, _)
Digits(n, w) == IF w = 0 THEN <<>> ELSE Append(Digits(n \div 10, w - 1), n % 10)

\* Whether new Date(unixMs) is a valid Date; toISOString throws a RangeError
\* when it is not.
IsValidDate(unixMs) == unixMs >= MIN_ISO_YEAR /\ unixMs <= MAX_ISO_YEAR

\* toISOTimestamp: the year field of the ISO string of a valid Date (the rest
\* of the string is the same for every instant of the model), as character
\* codes: "YYYY" for the years 0..9999, "+YYYYYY" or "-YYYYYY" otherwise.
toISOTimestamp(unixMs) ==
  IF unixMs >= 0 /\ unixMs <= 9999 THEN [i \in 1..4 |-> 48 + Digits(unixMs, 4)[i]]
  ELSE IF unixMs < 0 THEN <<45>> \o [i \in 1..6 |-> 48 + Digits(0 - unixMs, 6)[i]]
  ELSE <<43>> \o [i \in 1..6 |-> 48 + Digits(unixMs, 6)[i]]

\* Faulty variant: the key is the message id alone.
dedupeKeyIdOnly(messageId, timestamp) == <<messageId, ":">>

\* dedupeKey: `${messageId}:${timestamp}`.
dedupeKey(messageId, timestamp) == <<messageId, ":", timestamp>>

\* Faulty variant: the override is taken whenever one is given, positive or not.
getOptimalConcurrencyAnyOverride(override, cpus) ==
  IF override # 0 THEN override ELSE Max(8, Min(32, cpus * 2))

\* getOptimalConcurrency(override): override is 0 when the caller gave none
\* (undefined and NaN both fail the test override > 0).
getOptimalConcurrency(override, cpus) ==
  IF override > 0 THEN override ELSE Max(8, Min(32, cpus * 2))

\* -------------------------------------------------------- src/converter.ts

\* A message of an export (MessageInfoSchema): the optional fields carry a
\* has* flag.
Msg(id, role, created, hasCompleted, completed, tokens) ==
  [id |-> id, role |-> role, hasCreated |-> TRUE, created |-> created,
   hasCompleted |-> hasCompleted, completed |-> completed,
   hasTokens |-> tokens # <<>>,
   input |-> IF tokens # <<>> THEN tokens[1] ELSE 0,
   output |-> IF tokens # <<>> THEN tokens[2] ELSE 0,
   reasoning |-> IF tokens # <<>> THEN tokens[3] ELSE 0,
   cacheRead |-> IF tokens # <<>> THEN tokens[4] ELSE 0,
   cacheWrite |-> IF tokens # <<>> THEN tokens[5] ELSE 0,
   hasModel |-> TRUE, modelID |-> "model-a", hasCwd |-> FALSE, cwd |-> ""]

\* Faulty variant: the cache and reasoning fields are not looked at.
hasValidTokensInputOutput(msg) ==
  IF ~msg.hasTokens THEN FALSE
  ELSE msg.input > 0 \/ msg.output > 0

hasValidTokens(msg) ==
  IF ~msg.hasTokens THEN FALSE
  ELSE \/ msg.input > 0
       \/ msg.output > 0
       \/ msg.reasoning > 0
       \/ msg.cacheRead > 0
       \/ msg.cacheWrite > 0

hasValidTimestamp(msg) == msg.hasCompleted \/ msg.hasCreated

getTimestamp(msg) == IF msg.hasCompleted THEN msg.completed ELSE msg.created

\* Whether convertMessage throws: toISOTimestamp is its only call that can.
convertMessageThrows(msg) == ~IsValidDate(getTimestamp(msg))

\* Faulty variant: the reasoning tokens are always added to the output tokens.
convertMessageAddsReasoning(msg, sessionId, includeReasoningInOutput) ==
  LET timestamp == getTimestamp(msg)
      outputTokens == msg.output + msg.reasoning
      usage0 == [input_tokens |-> msg.input, output_tokens |-> outputTokens]
      usage1 == IF msg.cacheRead > 0
                THEN usage0 @@ [cache_read_input_tokens |-> msg.cacheRead]
                ELSE usage0
      usage2 == IF msg.cacheWrite > 0
                THEN usage1 @@ [cache_creation_input_tokens |-> msg.cacheWrite]
                ELSE usage1
      line0 == [timestamp |-> toISOTimestamp(timestamp),
                sessionId |-> sessionId,
                requestId |-> <<"opencode", sessionId, msg.id>>,
                message |-> [id |-> msg.id,
                             model |-> IF msg.hasModel THEN msg.modelID
                                       ELSE "unknown",
                             usage |-> usage2]]
  IN IF msg.hasCwd /\ msg.cwd # "" THEN line0 @@ [cwd |-> msg.cwd]
     ELSE line0

\* Faulty variant: the cache fields are always set.
convertMessageAlwaysCache(msg, sessionId, includeReasoningInOutput) ==
  LET timestamp == getTimestamp(msg)
      outputTokens == IF includeReasoningInOutput
                      THEN msg.output + msg.reasoning
                      ELSE msg.output
      usage0 == [input_tokens |-> msg.input, output_tokens |-> outputTokens]
      usage1 == IF TRUE
                THEN usage0 @@ [cache_read_input_tokens |-> msg.cacheRead]
                ELSE usage0
      usage2 == IF TRUE
                THEN usage1 @@ [cache_creation_input_tokens |-> msg.cacheWrite]
                ELSE usage1
      line0 == [timestamp |-> toISOTimestamp(timestamp),
                sessionId |-> sessionId,
                requestId |-> <<"opencode", sessionId, msg.id>>,
                message |-> [id |-> msg.id,
                             model |-> IF msg.hasModel THEN msg.modelID
                                       ELSE "unknown",
                             usage |-> usage2]]
  IN IF msg.hasCwd /\ msg.cwd # "" THEN line0 @@ [cwd |-> msg.cwd]
     ELSE line0

\* convertMessage: the line of one message whose timestamp is a valid Date.
convertMessage(msg, sessionId, includeReasoningInOutput) ==
  LET timestamp == getTimestamp(msg)
      outputTokens == IF includeReasoningInOutput
                      THEN msg.output + msg.reasoning
                      ELSE msg.output
      usage0 == [input_tokens |-> msg.input, output_tokens |-> outputTokens]
      usage1 == IF msg.cacheRead > 0
                THEN usage0 @@ [cache_read_input_tokens |-> msg.cacheRead]
                ELSE usage0
      usage2 == IF msg.cacheWrite > 0
                THEN usage1 @@ [cache_creation_input_tokens |-> msg.cacheWrite]
                ELSE usage1
      line0 == [timestamp |-> toISOTimestamp(timestamp),
                sessionId |-> sessionId,
                requestId |-> <<"opencode", sessionId, msg.id>>,
                message |-> [id |-> msg.id,
                             model |-> IF msg.hasModel THEN msg.modelID
                                       ELSE "unknown",
                             usage |-> usage2]]
  IN IF msg.hasCwd /\ msg.cwd # "" THEN line0 @@ [cwd |-> msg.cwd]
     ELSE line0

\* The place of a character in the collation localeCompare applies:
\* punctuation and symbols before digits.
CollationRank(c) == IF c = 45 THEN 0 ELSE IF c = 43 THEN 1 ELSE c - 46

\* a.localeCompare(b) < 0, = 0, > 0 as -1, 0, 1.
RECURSIVE localeCompare(_, _)
localeCompare(a, b) ==
  IF a = <<>> /\ b = <<>> THEN 0
  ELSE IF a = <<>> THEN -1
  ELSE IF b = <<>> THEN 1
  ELSE IF CollationRank(Head(a)) < CollationRank(Head(b)) THEN -1
  ELSE IF CollationRank(Head(a)) > CollationRank(Head(b)) THEN 1
  ELSE localeCompare(Tail(a), Tail(b))

\* Array.prototype.sort with the comparator of convertSession: a stable
\* sort, as an insertion of each line after the lines that do not compare
\* greater.
RECURSIVE InsertLine(_, _)
InsertLine(sorted, line) ==
  IF sorted = <<>> THEN <<line>>
  ELSE IF localeCompare(Head(sorted).timestamp, line.timestamp) <= 0
       THEN <<Head(sorted)>> \o InsertLine(Tail(sorted), line)
       ELSE <<line>> \o sorted

RECURSIVE SortLines(_)
SortLines(lines) ==
  IF lines = <<>> THEN <<>>
  ELSE InsertLine(SortLines(SubSeq(lines, 1, Len(lines) - 1)), lines[Len(lines)])

\* The frame of convertSession(session, options) at its entry: the position
\* of the for loop, lines, seen and skippedCount, and as history the
\* positions of the messages a line was pushed for.
CallConvert(session, includeReasoningInOutput) ==
  [state |-> "loop", session |-> session, opt |-> includeReasoningInOutput,
   i |-> 1, lines |-> <<>>, seen |-> {}, skippedCount |-> 0, threw |-> FALSE,
   kept |-> {}]

\* Faulty variant: the role of the message is not looked at.
ConvertStepKeepsUsers(f, session, includeReasoningInOutput) ==
  LET msg == session.messages[f.i]
      key == dedupeKey(msg.id, getTimestamp(msg))
      next == [f EXCEPT !.i = @ + 1]
  IN IF ~hasValidTokens(msg) \/ ~hasValidTimestamp(msg) \/ key \in f.seen
     THEN [next EXCEPT !.skippedCount = @ + 1]
     ELSE IF convertMessageThrows(msg) THEN [f EXCEPT !.threw = TRUE]
     ELSE [next EXCEPT
             !.lines = Append(@, convertMessage(msg, session.info.id,
                                                includeReasoningInOutput)),
             !.seen = @ \cup {key}, !.kept = @ \cup {f.i}]

\* Faulty variant: a message that is not an assistant message is counted as
\* skipped.
ConvertStepCountsUsers(f, session, includeReasoningInOutput) ==
  LET msg == session.messages[f.i]
      key == dedupeKey(msg.id, getTimestamp(msg))
      next == [f EXCEPT !.i = @ + 1]
  IN IF msg.role # "assistant" \/ ~hasValidTokens(msg)
        \/ ~hasValidTimestamp(msg) \/ key \in f.seen
     THEN [next EXCEPT !.skippedCount = @ + 1]
     ELSE IF convertMessageThrows(msg) THEN [f EXCEPT !.threw = TRUE]
     ELSE [next EXCEPT
             !.lines = Append(@, convertMessage(msg, session.info.id,
                                                includeReasoningInOutput)),
             !.seen = @ \cup {key}, !.kept = @ \cup {f.i}]

\* Faulty variant: the key of an assistant message is looked up and added to
\* seen before its tokens are looked at.
ConvertStepDedupFirst(f, session, includeReasoningInOutput) ==
  LET msg == session.messages[f.i]
      key == dedupeKey(msg.id, getTimestamp(msg))
      next == [f EXCEPT !.i = @ + 1]
  IN IF msg.role # "assistant" THEN next
     ELSE IF key \in f.seen THEN [next EXCEPT !.skippedCount = @ + 1]
     ELSE IF ~hasValidTokens(msg) \/ ~hasValidTimestamp(msg)
     THEN [next EXCEPT !.skippedCount = @ + 1, !.seen = @ \cup {key}]
     ELSE IF convertMessageThrows(msg) THEN [f EXCEPT !.threw = TRUE]
     ELSE [next EXCEPT
             !.lines = Append(@, convertMessage(msg, session.info.id,
                                                includeReasoningInOutput)),
             !.seen = @ \cup {key}, !.kept = @ \cup {f.i}]

\* Lines 824-853: one iteration of the for loop of convertSession, on the
\* message at position f.i.  threw is set when convertMessage throws: the
\* loop is left and nothing is returned.
ConvertStep(f, session, includeReasoningInOutput) ==
  LET msg == session.messages[f.i]
      key == dedupeKey(msg.id, getTimestamp(msg))
      next == [f EXCEPT !.i = @ + 1]
  IN IF msg.role # "assistant" THEN next
     ELSE IF ~hasValidTokens(msg) THEN [next EXCEPT !.skippedCount = @ + 1]
     ELSE IF ~hasValidTimestamp(msg) THEN [next EXCEPT !.skippedCount = @ + 1]
     ELSE IF key \in f.seen THEN [next EXCEPT !.skippedCount = @ + 1]
     ELSE IF convertMessageThrows(msg) THEN [f EXCEPT !.threw = TRUE]
     ELSE [next EXCEPT
             !.lines = Append(@, convertMessage(msg, session.info.id,
                                                includeReasoningInOutput)),
             !.seen = @ \cup {key}, !.kept = @ \cup {f.i}]

\* The loop of convertSession over the messages from position i on, with
\* the lines, the seen keys and the skipped count so far, and the sort that
\* follows it.
RECURSIVE ConvertLoop(_, _, _, _, _, _)
ConvertLoop(session, includeReasoningInOutput, i, lines, seen, skippedCount) ==
  IF i > Len(session.messages)
  THEN [threw |-> FALSE, lines |-> SortLines(lines), skippedCount |-> skippedCount]
  ELSE LET f == ConvertStep([CallConvert(session, includeReasoningInOutput)
                               EXCEPT !.i = i, !.lines = lines, !.seen = seen,
                                      !.skippedCount = skippedCount],
                            session, includeReasoningInOutput)
       IN IF f.threw
          THEN [threw |-> TRUE, lines |-> <<>>, skippedCount |-> skippedCount]
          ELSE ConvertLoop(session, includeReasoningInOutput, f.i, f.lines,
                           f.seen, f.skippedCount)

convertSession(session, includeReasoningInOutput) ==
  ConvertLoop(session, includeReasoningInOutput, 1, <<>>, {}, 0)

\* ---------------------------------------------------------- src/session.ts

\* The exports the subprocess hands back in the model (OpenCodeExport, valid
\* against the schema): one with two billable assistant messages, a user
\* message and an assistant message without token activity; one without any
\* convertible message; one whose billable message carries an instant that
\* is no valid Date.
ExportWithLines(sessionId) ==
  [info |-> [id |-> sessionId],
   messages |-> << Msg("m1", "user", 2024, FALSE, 0, <<>>),
                   Msg("m2", "assistant", 2024, TRUE, 2025, <<100, 200, 50, 0, 0>>),
                   Msg("m3", "assistant", 2024, FALSE, 0, <<0, 0, 0, 0, 0>>),
                   Msg("m4", "assistant", 2023, FALSE, 0, <<0, 0, 0, 0, 15000>>) >>]

ExportWithoutLines(sessionId) ==
  [info |-> [id |-> sessionId],
   messages |-> << Msg("m1", "user", 2024, FALSE, 0, <<>>),
                   Msg("m2", "assistant", 2024, FALSE, 0, <<0, 0, 0, 0, 0>>) >>]

ExportWithInvalidDate(sessionId) ==
  [info |-> [id |-> sessionId],
   messages |-> << Msg("m1", "assistant", MAX_ISO_YEAR + 1, FALSE, 0,
                       <<1, 1, 0, 0, 0>>) >>]

ExportKinds == {"lines", "empty", "invalidDate"}

ExportOf(kind, sessionId) ==
  IF kind = "lines" THEN ExportWithLines(sessionId)
  ELSE IF kind = "empty" THEN ExportWithoutLines(sessionId)
  ELSE ExportWithInvalidDate(sessionId)

\* What one call of exportSession meets: whether the session directory
\* exists, how the subprocess ends ("spawnError", "exit0", "exit1"), and what
\* the temp file holds ("json", "bannerJson", "noJson", "badJson",
\* "badSchema"), with the export a well-formed content parses to.
Attempt(dirExists, proc, content, kind) ==
  [dirExists |-> dirExists, proc |-> proc, content |-> content, kind |-> kind]

OkAttempt(kind) == Attempt(TRUE, "exit0", "json", kind)

FailedAttempt == Attempt(TRUE, "exit1", "noJson", "lines")

\* exportSession(sessionId, directory) on one attempt: the data it returns,
\* or the error it throws.
exportSession(sessionId, att) ==
  IF ~att.dirExists
  THEN [threw |-> TRUE, error |-> "Session directory does not exist",
        spawned |-> FALSE]
  ELSE IF att.proc = "spawnError"
  THEN [threw |-> TRUE, error |-> "Failed to execute opencode", spawned |-> TRUE]
  ELSE IF att.proc # "exit0"
  THEN [threw |-> TRUE, error |-> "opencode export failed", spawned |-> TRUE]
  ELSE IF att.content = "noJson"
  THEN [threw |-> TRUE, error |-> "No JSON found in export output",
        spawned |-> TRUE]
  ELSE IF att.content = "badJson"
  THEN [threw |-> TRUE, error |-> "Failed to parse export JSON", spawned |-> TRUE]
  ELSE IF att.content = "badSchema"
  THEN [threw |-> TRUE, error |-> "Invalid export JSON", spawned |-> TRUE]
  ELSE [threw |-> FALSE, error |-> "", spawned |-> TRUE]

\* The characters of the content of the temp file: "b" a character of a
\* banner (any character other than a brace), "n" white space, the braces,
\* "k" the members of an export that satisfies OpenCodeExportSchema, "s"
\* members that are well-formed JSON and do not satisfy the schema.
ContentChars == {"b", "n", "{", "}", "k", "s"}

\* Faulty variant: the position of the last ch is taken.
indexOfLast(str, ch) ==
  IF \E n \in DOMAIN str : str[n] = ch
  THEN (CHOOSE n \in DOMAIN str :
          str[n] = ch /\ \A m \in DOMAIN str : str[m] = ch => m <= n) - 1
  ELSE 0 - 1

\* String.prototype.indexOf: the 0-based position of the first ch, or -1.
indexOf(str, ch) ==
  IF \E n \in DOMAIN str : str[n] = ch
  THEN (CHOOSE n \in DOMAIN str :
          str[n] = ch /\ \A m \in DOMAIN str : str[m] = ch => n <= m) - 1
  ELSE 0 - 1

\* String.prototype.slice(start) for 0 <= start.
slice(str, start) == SubSeq(str, start + 1, Len(str))

\* JSON.parse on the strings of the model: white space is allowed around
\* every token; an object is a pair of braces around its members; anything
\* else is a SyntaxError.
JSONParse(str) ==
  LET tokens == SelectSeq(str, LAMBDA c : c # "n")
  IN IF tokens = <<"{", "k", "}">> THEN [ok |-> TRUE, value |-> "export"]
     ELSE IF tokens \in {<<"{", "}">>, <<"{", "s", "}">>}
     THEN [ok |-> TRUE, value |-> "other"]
     ELSE [ok |-> FALSE, value |-> "none"]

\* OpenCodeExportSchema.safeParse(value).success
safeParseSuccess(value) == value = "export"

\* What a call of exportSession followed step by step meets: the attempt
\* with the text of the temp file in place of its class, and whether the
\* unlink of the temp file fails.
ExportEnv(dirExists, proc, text, unlinkFails) ==
  [dirExists |-> dirExists, proc |-> proc, text |-> text,
   unlinkFails |-> unlinkFails]

\* The frame of exportSession(sessionId, directory) at its entry.
CallExport(sessionId, e) ==
  [state |-> "entry", sessionId |-> sessionId, env |-> e, tmpExists |-> FALSE,
   spawns |-> 0, reads |-> 0, unlinks |-> 0, parses |-> 0, parsedText |-> <<>>,
   outcome |-> "none", error |-> ""]

\* The frame leaves the try block with an error: the finally block is next.
ExportFails(f, error) ==
  [f EXCEPT !.state = "finally", !.outcome = "throw", !.error = error]

\* Faulty variant: the directory is not verified.
exportSessionEntryUnchecked(f) == [f EXCEPT !.state = "exec"]

\* Lines 130-136: the directory is verified; without it exportSession throws
\* outside the try block.
exportSessionEntry(f) ==
  IF ~f.env.dirExists
  THEN [f EXCEPT !.state = "threw", !.outcome = "throw",
                 !.error = "Session directory does not exist"]
  ELSE [f EXCEPT !.state = "exec"]

\* Lines 138-151: execCommand runs `opencode export <id> > tmpFile` in a
\* shell, which creates the temp file before the tool runs; a spawn error
\* rejects, a non-zero exit code is thrown.
exportSessionExec(f) ==
  IF f.env.proc = "spawnError"
  THEN ExportFails([f EXCEPT !.spawns = @ + 1], "Failed to execute opencode")
  ELSE LET ran == [f EXCEPT !.spawns = @ + 1, !.tmpExists = TRUE]
       IN IF f.env.proc # "exit0"
          THEN ExportFails(ran, "opencode export failed")
          ELSE [ran EXCEPT !.state = "read"]

\* Lines 153-180: the temp file is read, the text from its first "{" on is
\* parsed and validated; a SyntaxError is rethrown as a parse failure.
exportSessionParse(f) ==
  LET content == f.env.text
      jsonStart == indexOf(content, "{")
      jsonStr == IF jsonStart > 0 THEN slice(content, jsonStart) ELSE content
      parsed == JSONParse(jsonStr)
      read == [f EXCEPT !.reads = @ + 1]
      handed == [read EXCEPT !.parses = @ + 1, !.parsedText = jsonStr]
  IN IF jsonStart = 0 - 1
     THEN ExportFails(read, "No JSON found in export output")
     ELSE IF ~parsed.ok
     THEN ExportFails(handed, "Failed to parse export JSON")
     ELSE IF ~safeParseSuccess(parsed.value)
     THEN ExportFails(handed, "Invalid export JSON")
     ELSE [handed EXCEPT !.state = "finally", !.outcome = "return"]

\* Faulty variant: the temp file is removed on the success path only.
exportSessionFinallyOnSuccess(f) ==
  IF f.outcome = "return"
  THEN [f EXCEPT !.unlinks = @ + 1,
                 !.tmpExists = @ /\ f.env.unlinkFails,
                 !.state = "returned"]
  ELSE [f EXCEPT !.state = "threw"]

\* Lines 181-188: the finally block unlinks the temp file and ignores the
\* error of the unlink; then the data is returned or the error thrown.
exportSessionFinally(f) ==
  [f EXCEPT !.unlinks = @ + 1,
            !.tmpExists = @ /\ f.env.unlinkFails,
            !.state = IF f.outcome = "return" THEN "returned" ELSE "threw"]

\* Default of the maxRetries parameter of exportSessionWithRetry.
DEFAULT_MAX_RETRIES == 1

\* Faulty variant: the exit code of the probe is not looked at.
checkOpenCodeAvailableAnyExit(probe) == probe # "spawnError"

\* checkOpenCodeAvailable: the version probe ended with exit code 0; a probe
\* that cannot be spawned is caught and answers false.
checkOpenCodeAvailable(probe) == probe = "exit0"

\* --------------------------------------------------------- src/exporter.ts

GroupBys == {"flat", "project", "directory"}

\* The first 12 hexadecimal digits of the SHA-256 digest of a directory
\* path: a tag of the path (no two paths of the model collide).
Sha256Hex12(directory) == <<"sha256", directory>>

getProjectSubdir(session, groupBy) ==
  IF groupBy = "flat" THEN <<"opencode">>
  ELSE IF groupBy = "project" THEN <<"opencode", session.projectId>>
  ELSE <<"opencode", Sha256Hex12(session.directory)>>

\* path.join(options.outDir, "projects", subdir)
ProjectDir(session, groupBy) == <<"projects", getProjectSubdir(session, groupBy)>>

\* Faulty variant: the file is named after the project, not the session.
OutFileNamedByProject(session, groupBy) ==
  <<ProjectDir(session, groupBy), session.projectId, "jsonl">>

\* path.join(projectDir, `${session.id}.jsonl`)
OutFile(session, groupBy) == <<ProjectDir(session, groupBy), session.id, "jsonl">>

\* The stats runExport starts from.
EmptyStats ==
  [sessionsDiscovered |-> 0, sessionsExported |-> 0, sessionsSkipped |-> 0,
   messagesConverted |-> 0, messagesSkipped |-> 0, errors |-> <<>>]

\* The error string runExport records for a session whose export failed.
ExportErrorString(sessionId) == <<"Failed to export session", sessionId>>

\* ------------------------------------------------------------------ inputs

\* The discovered sessions (SessionListItem), oldest first as listSessions
\* returns them; the ids are unique, projects and directories are shared.
SessionItem(i) ==
  [id |-> i, title |-> "", created |-> 2000 + i, updated |-> 2010 + i,
   projectId |-> IF i % 2 = 1 THEN "projA" ELSE "projB",
   directory |-> IF i % 3 = 0 THEN "/work/b" ELSE "/work/a"]

\* What the world holds for one session: the state of its output file before
\* the run ("absent", "stale": older than the session's update, "fresh":
\* written at the session's update), what the attempts of its export meet,
\* and whether creating its output directory or writing its file fails.
World(file, plan, mkdirFails, writeFails) ==
  [file |-> file, plan |-> plan, mkdirFails |-> mkdirFails,
   writeFails |-> writeFails]

Healthy == World("absent", <<OkAttempt("lines"), OkAttempt("lines")>>, FALSE, FALSE)

Failing == World("absent", <<FailedAttempt, FailedAttempt>>, FALSE, FALSE)

Worlds ==
  { Healthy, Failing,
    World("stale", <<OkAttempt("lines"), OkAttempt("lines")>>, FALSE, FALSE),
    World("fresh", <<OkAttempt("lines"), OkAttempt("lines")>>, FALSE, FALSE),
    World("absent", <<FailedAttempt, OkAttempt("lines")>>, FALSE, FALSE),
    World("absent", <<OkAttempt("empty"), OkAttempt("empty")>>, FALSE, FALSE),
    World("absent", <<OkAttempt("invalidDate"), OkAttempt("invalidDate")>>, FALSE, FALSE),
    World("absent", <<OkAttempt("lines"), OkAttempt("lines")>>, TRUE, FALSE),
    World("absent", <<OkAttempt("lines"), OkAttempt("lines")>>, FALSE, TRUE) }

\* The inputs of a run: how the version probe of the export tool ends
\* ("exit0", "exit1", "spawnError"), whether the storage can be enumerated,
\* the sessions it holds, and the world of each.
Env(probe, listed, n, world) ==
  [probe |-> probe, listed |-> listed,
   sessions |-> [i \in 1..n |-> SessionItem(i)], world |-> world]

\* How the preflight and the enumeration can end: the enumeration is only
\* reached after a successful probe.
Preconditions ==
  {<<"exit0", TRUE>>, <<"exit0", FALSE>>, <<"exit1", TRUE>>, <<"spawnError", TRUE>>}

\* Every mix of worlds for up to MaxSessions sessions.
SmallEnvs ==
  UNION { {Env(pre[1], pre[2], n, w) : w \in [1..n -> Worlds], pre \in Preconditions} :
            n \in 0..MaxSessions }

\* A batch of BatchSize sessions of which the k oldest fail to export.
BatchEnvs ==
  { Env("exit0", TRUE, BatchSize,
        [i \in 1..BatchSize |-> IF i <= k THEN Failing ELSE Healthy]) :
      k \in 0..BatchSize }

\* createExportOptions: the defaults, with the overrides of the caller.
DefaultOptions ==
  [overwrite |-> TRUE, includeReasoningInOutput |-> TRUE, groupBy |-> "flat",
   dryRun |-> FALSE, verbose |-> FALSE, incremental |-> FALSE]

OptionSets ==
  { [DefaultOptions EXCEPT !.overwrite = o, !.groupBy = g, !.incremental = inc] :
      o \in BOOLEAN, g \in GroupBys, inc \in BOOLEAN }

\* The output files on disk before a run.
InitialFiles(e, groupBy) ==
  { [path |-> OutFile(e.sessions[i], groupBy),
     mtime |-> IF e.world[i].file = "stale" THEN e.sessions[i].updated - 1
               ELSE e.sessions[i].updated,
     writer |-> 0] :
      i \in {j \in DOMAIN e.sessions : e.world[j].file # "absent"} }

\* ------------------------------------------------------------------- state

VARIABLES
  env,            \* the discovered sessions and what the world holds for each
  options,        \* ExportOptions
  run,            \* 1: the run; 2: the same inputs run again with dryRun set
  prev,           \* what run 1 ended with, kept for run 2
  pc,             \* where runExport is
  thrown,         \* what runExport threw ("" while it has not)
  sessions,       \* runExport: sessions
  idx,            \* runExport: position of the for loop in sessions
  stats,          \* runExport: stats
  createdDirs,    \* runExport: createdDirs
  processedCount, \* runExport: processedCount
  exported,       \* runExport: the export under conversion and writing
  inFlight,       \* the sessions whose iteration has begun and not ended
  dirs,           \* file system: the output directories that exist
  files,          \* file system: the output files that exist
  retry,          \* the frame of exportSessionWithRetry
  calls,          \* history: the calls runExport made, in order
  snapshots,      \* history: stats at the end of each iteration of the loop
  xp,             \* the frame of a call of exportSession followed step by step
  cv,             \* the frame of a call of convertSession followed step by step
  lib             \* the frame of a call of toJsonl, createExportOptions or
                  \* listSessions made on its own

vars ==
  <<env, options, run, prev, pc, thrown, sessions, idx, stats, createdDirs,
    processedCount, exported, inFlight, dirs, files, retry, calls, snapshots,
    xp, cv, lib>>

\* Faulty variant: the answer of the access check is inverted.
fileExistsInverted(path) == ~\E f \in files : f.path = path

\* fileExists(path) for an output file.
fileExists(path) == \E f \in files : f.path = path

\* The modification time of a file written during the run: the run takes
\* place after the last update of every session.
WriteTime(session) == session.updated + 1

\* The delay of setTimeout between two attempts, in milliseconds.
RETRY_DELAY_MS == 500

IdleRetry ==
  [state |-> "idle", sessionId |-> 0, plan |-> <<>>, maxRetries |-> 0,
   attempt |-> 0, result |-> "none", kind |-> "", lastError |-> "",
   exportCalls |-> 0, spawns |-> 0, delays |-> 0, waitedMs |-> 0,
   warned |-> FALSE]

\* The frame of a call exportSessionWithRetry(sessionId, directory, maxRetries).
CallRetry(sessionId, plan, maxRetries) ==
  [IdleRetry EXCEPT !.state = "try", !.sessionId = sessionId, !.plan = plan,
                    !.maxRetries = maxRetries]

\* No call of exportSession, or of convertSession, is followed step by step.
IdleExport == [state |-> "idle"]

IdleConvert == [state |-> "idle"]

IdleLib == [state |-> "idle"]

NoPrev ==
  [pc |-> "", thrown |-> "", stats |-> EmptyStats, calls |-> <<>>,
   snapshots |-> <<>>]

\* The state runExport starts from.
Start(e, o, r, p) ==
  /\ env = e
  /\ options = o
  /\ run = r
  /\ prev = p
  /\ pc = "start"
  /\ thrown = ""
  /\ sessions = <<>>
  /\ idx = 0
  /\ stats = EmptyStats
  /\ createdDirs = {}
  /\ processedCount = 0
  /\ exported = ""
  /\ inFlight = {}
  /\ dirs = {}
  /\ files = InitialFiles(e, o.groupBy)
  /\ retry = IdleRetry
  /\ calls = <<>>
  /\ snapshots = <<>>
  /\ xp = IdleExport
  /\ cv = IdleConvert
  /\ lib = IdleLib

Init ==
  \/ \E e \in SmallEnvs, o \in OptionSets : Start(e, o, 1, NoPrev)
  \/ \E e \in BatchEnvs : Start(e, DefaultOptions, 1, NoPrev)

\* ------------------------------------------------- exportSessionWithRetry

\* Faulty variant: the loop gives up one attempt early (attempt < maxRetries).
RetryStepOneAttemptShort(r) ==
  LET att == r.plan[r.attempt + 1]
      res == exportSession(r.sessionId, att)
      called == [r EXCEPT !.exportCalls = @ + 1,
                          !.spawns = @ + (IF res.spawned THEN 1 ELSE 0)]
  IN IF ~res.threw
     THEN [called EXCEPT !.state = "returned", !.result = "data",
                         !.kind = att.kind]
     ELSE IF r.attempt + 1 < r.maxRetries
     THEN [called EXCEPT !.state = "delay", !.lastError = res.error]
     ELSE [called EXCEPT !.state = "returned", !.result = "null",
                         !.lastError = res.error, !.attempt = @ + 1,
                         !.warned = TRUE]

\* Faulty variant: the delay is awaited after the last failed attempt too.
RetryStepDelaysAfterLast(r) ==
  LET att == r.plan[r.attempt + 1]
      res == exportSession(r.sessionId, att)
      called == [r EXCEPT !.exportCalls = @ + 1,
                          !.spawns = @ + (IF res.spawned THEN 1 ELSE 0)]
  IN IF ~res.threw
     THEN [called EXCEPT !.state = "returned", !.result = "data",
                         !.kind = att.kind]
     ELSE IF r.attempt < r.maxRetries
     THEN [called EXCEPT !.state = "delay", !.lastError = res.error]
     ELSE [called EXCEPT !.state = "returned", !.result = "null",
                         !.lastError = res.error, !.attempt = @ + 1,
                         !.delays = @ + 1, !.waitedMs = @ + RETRY_DELAY_MS,
                         !.warned = TRUE]

\* The frame after one pass of the for loop of exportSessionWithRetry.
RetryStep(r) ==
  LET att == r.plan[r.attempt + 1]
      res == exportSession(r.sessionId, att)
      called == [r EXCEPT !.exportCalls = @ + 1,
                          !.spawns = @ + (IF res.spawned THEN 1 ELSE 0)]
  IN IF ~res.threw
     THEN [called EXCEPT !.state = "returned", !.result = "data",
                         !.kind = att.kind]
     ELSE IF r.attempt < r.maxRetries
     THEN [called EXCEPT !.state = "delay", !.lastError = res.error]
     ELSE [called EXCEPT !.state = "returned", !.result = "null",
                         !.lastError = res.error, !.attempt = @ + 1,
                         !.warned = TRUE]

\* One pass of the for loop: exportSession is tried; its data is returned,
\* or its error is caught, and then either the delay is awaited or, after
\* the last attempt, the warning is emitted and null returned.
RetryAttempt ==
  /\ retry.state = "try"
  /\ retry.attempt <= retry.maxRetries
  /\ retry' = RetryStep(retry)
  /\ UNCHANGED <<lib, xp, cv, env, options, run, prev, pc, thrown, sessions, idx, stats,
                 createdDirs, processedCount, exported, inFlight, dirs, files,
                 calls, snapshots>>

\* The 500 ms delay between a failed attempt and the next one.
RetryDelay ==
  /\ retry.state = "delay"
  /\ retry' = [retry EXCEPT !.state = "try", !.delays = @ + 1,
                             !.waitedMs = @ + RETRY_DELAY_MS, !.attempt = @ + 1]
  /\ UNCHANGED <<lib, xp, cv, env, options, run, prev, pc, thrown, sessions, idx, stats,
                 createdDirs, processedCount, exported, inFlight, dirs, files,
                 calls, snapshots>>

\* --------------------------------------------------------------- runExport

\* Faulty variant: the outcome of the iteration is not kept in stats.
EndIterationLosesOutcome(newStats) ==
  /\ stats' = stats
  /\ snapshots' = Append(snapshots, stats)
  /\ processedCount' = processedCount + 1
  /\ idx' = idx + 1
  /\ inFlight' = inFlight \ {idx}
  /\ pc' = IF idx + 1 > Len(sessions) THEN "done" ELSE "mkdir"

\* The end of an iteration of the for loop (its last statement or a
\* continue) with the stats it leaves: the loop moves on to the next
\* session, or ends and runExport returns stats.
EndIteration(newStats) ==
  /\ stats' = newStats
  /\ snapshots' = Append(snapshots, newStats)
  /\ processedCount' = processedCount + 1
  /\ idx' = idx + 1
  /\ inFlight' = inFlight \ {idx}
  /\ pc' = IF idx + 1 > Len(sessions) THEN "done" ELSE "mkdir"

\* runExport throws: nothing of the loop goes on.
Throw(what) ==
  /\ pc' = "thrown"
  /\ thrown' = what
  /\ inFlight' = {}

\* Lines 82-94: the availability probe; runExport throws when it fails.
Preflight ==
  /\ pc = "start"
  /\ calls' = Append(calls, <<"checkOpenCodeAvailable">>)
  /\ IF checkOpenCodeAvailable(env.probe)
     THEN pc' = "discover" /\ UNCHANGED <<thrown, inFlight>>
     ELSE Throw("preflight")
  /\ UNCHANGED <<lib, xp, cv, env, options, run, prev, sessions, idx, stats, createdDirs,
                 processedCount, exported, dirs, files, retry, snapshots>>

\* Lines 96-120: session discovery; listSessions throws when the storage
\* cannot be enumerated, and runExport returns at once when it finds nothing.
Discover ==
  /\ pc = "discover"
  /\ calls' = Append(calls, <<"listSessions">>)
  /\ IF ~env.listed
     THEN /\ Throw("enumeration")
          /\ UNCHANGED <<sessions, stats, idx>>
     ELSE /\ sessions' = env.sessions
          /\ stats' = [stats EXCEPT !.sessionsDiscovered = Len(env.sessions)]
          /\ idx' = 1
          /\ pc' = IF Len(env.sessions) = 0 THEN "done" ELSE "mkdir"
          /\ UNCHANGED <<thrown, inFlight>>
  /\ UNCHANGED <<lib, xp, cv, env, options, run, prev, createdDirs, processedCount, exported,
                 dirs, files, retry, snapshots>>

\* Faulty variant: only the first directory of the run is created.
NeedsMkdirFirstOnly(projectDir) == createdDirs = {} /\ ~options.dryRun

\* Faulty variant: a dry run creates the directory too.
NeedsMkdirInDryRun(projectDir) == projectDir \notin createdDirs

\* Line 130: whether the iteration creates the session's output directory.
NeedsMkdir(projectDir) == projectDir \notin createdDirs /\ ~options.dryRun

\* Lines 123-133: an iteration begins; the output directory of the session
\* is created unless this run created it already or is a dry run; mkdir's
\* error is not caught.
EnsureDir ==
  /\ pc = "mkdir"
  /\ LET session == sessions[idx]
         projectDir == ProjectDir(session, options.groupBy)
     IN IF NeedsMkdir(projectDir)
        THEN /\ calls' = Append(calls, <<"mkdir", idx, projectDir>>)
             /\ IF env.world[idx].mkdirFails
                THEN /\ Throw("mkdir")
                     /\ UNCHANGED <<dirs, createdDirs>>
                ELSE /\ dirs' = dirs \cup {projectDir}
                     /\ createdDirs' = createdDirs \cup {projectDir}
                     /\ inFlight' = inFlight \cup {idx}
                     /\ pc' = "check"
                     /\ UNCHANGED thrown
        ELSE /\ inFlight' = inFlight \cup {idx}
             /\ pc' = "check"
             /\ UNCHANGED <<calls, dirs, createdDirs, thrown>>
  /\ UNCHANGED <<lib, xp, cv, env, options, run, prev, sessions, idx, stats, processedCount,
                 exported, files, retry, snapshots>>

\* Lines 135-146: the session is skipped when its file exists and overwrite
\* is off; otherwise exportSessionWithRetry is called for it.
SkipCheck ==
  /\ pc = "check"
  /\ LET session == sessions[idx]
         outFile == OutFile(session, options.groupBy)
         probed == IF options.overwrite THEN calls
                   ELSE Append(calls, <<"fileExists", idx, outFile>>)
     IN IF ~options.overwrite /\ fileExists(outFile)
        THEN /\ calls' = probed
             /\ EndIteration([stats EXCEPT !.sessionsSkipped = @ + 1])
             /\ UNCHANGED retry
        ELSE /\ calls' = Append(probed, <<"exportSessionWithRetry", idx, session.id>>)
             /\ retry' = CallRetry(session.id, env.world[idx].plan,
                                   DEFAULT_MAX_RETRIES)
             /\ pc' = "export"
             /\ UNCHANGED <<stats, snapshots, processedCount, idx, inFlight>>
  /\ UNCHANGED <<lib, xp, cv, env, options, run, prev, thrown, sessions, createdDirs,
                 exported, dirs, files>>

\* Faulty variant: a failed export is thrown to the caller.
RecordExportFailureThrows(session) ==
  /\ Throw("export")
  /\ UNCHANGED <<stats, snapshots, processedCount, idx>>

\* Lines 147-152: the export of the session failed: its error string is
\* pushed and the loop continues.
RecordExportFailure(session) ==
  /\ EndIteration([stats EXCEPT
                     !.errors = Append(@, ExportErrorString(session.id))])
  /\ UNCHANGED thrown

\* Faulty variant: the session is found empty before its messages are
\* counted.
SkipEmptySessionDropsCounts(counted) ==
  /\ EndIteration([stats EXCEPT !.sessionsSkipped = @ + 1])
  /\ UNCHANGED <<thrown, exported>>

\* Lines 162-172: the conversion gave no line: the session is counted as
\* skipped, with the message counts of its conversion, and the loop
\* continues.
SkipEmptySession(counted) ==
  /\ EndIteration([counted EXCEPT !.sessionsSkipped = @ + 1])
  /\ UNCHANGED <<thrown, exported>>

\* Lines 146-172: a null export is recorded as an error; an export is
\* converted and counted, and the session skipped when it has no line.
\* What convertSession throws is not caught.
AfterExport ==
  /\ pc = "export"
  /\ retry.state = "returned"
  /\ retry' = IdleRetry
  /\ LET session == sessions[idx]
         result == convertSession(ExportOf(retry.kind, session.id),
                                  options.includeReasoningInOutput)
         counted == [stats EXCEPT
                       !.messagesConverted = @ + Len(result.lines),
                       !.messagesSkipped = @ + result.skippedCount]
     IN IF retry.result = "null"
        THEN /\ RecordExportFailure(session)
             /\ UNCHANGED exported
        ELSE IF result.threw
        THEN /\ Throw("conversion")
             /\ UNCHANGED <<stats, snapshots, processedCount, idx, exported>>
        ELSE IF Len(result.lines) = 0
        THEN SkipEmptySession(counted)
        ELSE /\ stats' = counted
             /\ exported' = retry.kind
             /\ pc' = "write"
             /\ UNCHANGED <<thrown, snapshots, processedCount, idx, inFlight>>
  /\ UNCHANGED <<lib, xp, cv, env, options, run, prev, sessions, createdDirs, dirs, files,
                 calls>>

\* Lines 174-192: the lines are written to the session's file, or the write
\* is only described in a dry run; the session is counted as exported.
\* writeFile's error is not caught.
Write ==
  /\ pc = "write"
  /\ exported' = ""
  /\ LET session == sessions[idx]
         outFile == OutFile(session, options.groupBy)
     IN IF options.dryRun
        THEN /\ EndIteration([stats EXCEPT !.sessionsExported = @ + 1])
             /\ UNCHANGED <<files, calls, thrown>>
        ELSE /\ calls' = Append(calls, <<"writeFile", idx, outFile>>)
             /\ IF env.world[idx].writeFails
                   \/ ProjectDir(session, options.groupBy) \notin dirs
                THEN /\ Throw("write")
                     /\ UNCHANGED <<files, stats, snapshots, processedCount, idx>>
                ELSE /\ files' = {f \in files : f.path # outFile}
                                   \cup {[path |-> outFile,
                                          mtime |-> WriteTime(session),
                                          writer |-> idx]}
                     /\ EndIteration([stats EXCEPT !.sessionsExported = @ + 1])
                     /\ UNCHANGED thrown
  /\ UNCHANGED <<lib, xp, cv, env, options, run, prev, sessions, createdDirs, dirs, retry>>

\* The same inputs are run once more, as a dry run: the first run's outcome
\* is kept and the file system is the one the first run started from.
ReplayDryRun ==
  /\ run = 1
  /\ pc \in {"done", "thrown"}
  /\ run' = 2
  /\ prev' = [pc |-> pc, thrown |-> thrown, stats |-> stats, calls |-> calls,
              snapshots |-> snapshots]
  /\ options' = [options EXCEPT !.dryRun = TRUE]
  /\ pc' = "start"
  /\ thrown' = ""
  /\ sessions' = <<>>
  /\ idx' = 0
  /\ stats' = EmptyStats
  /\ createdDirs' = {}
  /\ processedCount' = 0
  /\ exported' = ""
  /\ inFlight' = {}
  /\ dirs' = {}
  /\ files' = InitialFiles(env, options.groupBy)
  /\ retry' = IdleRetry
  /\ calls' = <<>>
  /\ snapshots' = <<>>
  /\ UNCHANGED <<lib, xp, cv, env>>

Next ==
  \/ Preflight
  \/ Discover
  \/ EnsureDir
  \/ SkipCheck
  \/ RetryAttempt
  \/ RetryDelay
  \/ AfterExport
  \/ Write
  \/ ReplayDryRun

Spec == Init /\ [][Next]_vars

\* ---------------------------------- exportSessionWithRetry called directly

\* What an attempt can meet when the wrapper is called on its own.
AttemptKinds ==
  { OkAttempt("lines"),
    Attempt(FALSE, "exit0", "json", "lines"),
    Attempt(TRUE, "spawnError", "json", "lines"),
    Attempt(TRUE, "exit1", "noJson", "lines"),
    Attempt(TRUE, "exit0", "noJson", "lines"),
    Attempt(TRUE, "exit0", "badJson", "lines"),
    Attempt(TRUE, "exit0", "badSchema", "lines") }

\* A call exportSessionWithRetry(sessionId, directory, maxRetries) with
\* maxRetries in 0..MaxRetriesBound, outside any run of runExport.
InitRetry ==
  \E m \in 0..MaxRetriesBound :
    \E plan \in [1..(m + 1) -> AttemptKinds] :
      /\ env = Env("exit0", TRUE, 0, <<>>)
      /\ options = DefaultOptions
      /\ run = 1
      /\ prev = NoPrev
      /\ pc = "retry"
      /\ thrown = ""
      /\ sessions = <<>>
      /\ idx = 0
      /\ stats = EmptyStats
      /\ createdDirs = {}
      /\ processedCount = 0
      /\ exported = ""
      /\ inFlight = {}
      /\ dirs = {}
      /\ files = {}
      /\ retry = CallRetry(1, plan, m)
      /\ calls = <<>>
      /\ snapshots = <<>>
      /\ xp = IdleExport
      /\ cv = IdleConvert
      /\ lib = IdleLib

NextRetry ==
  \/ RetryAttempt
  \/ RetryDelay

SpecRetry == InitRetry /\ [][NextRetry]_vars

\* ----------------------------------------------- exportSession step by step

ExportEntry ==
  /\ xp.state = "entry"
  /\ xp' = exportSessionEntry(xp)
  /\ UNCHANGED <<lib, cv, env, options, run, prev, pc, thrown, sessions, idx, stats,
                 createdDirs, processedCount, exported, inFlight, dirs, files,
                 retry, calls, snapshots>>

ExportExec ==
  /\ xp.state = "exec"
  /\ xp' = exportSessionExec(xp)
  /\ UNCHANGED <<lib, cv, env, options, run, prev, pc, thrown, sessions, idx, stats,
                 createdDirs, processedCount, exported, inFlight, dirs, files,
                 retry, calls, snapshots>>

ExportParse ==
  /\ xp.state = "read"
  /\ xp' = exportSessionParse(xp)
  /\ UNCHANGED <<lib, cv, env, options, run, prev, pc, thrown, sessions, idx, stats,
                 createdDirs, processedCount, exported, inFlight, dirs, files,
                 retry, calls, snapshots>>

ExportFinally ==
  /\ xp.state = "finally"
  /\ xp' = exportSessionFinally(xp)
  /\ UNCHANGED <<lib, cv, env, options, run, prev, pc, thrown, sessions, idx, stats,
                 createdDirs, processedCount, exported, inFlight, dirs, files,
                 retry, calls, snapshots>>

\* The texts the temp file can hold.
ContentTexts == UNION {[1..n -> ContentChars] : n \in 0..MaxContentLen}

\* What a call can meet: the text of the temp file is read only after the
\* subprocess ended with exit code 0.
ExportEnvs ==
  {ExportEnv(TRUE, "exit0", t, u) : t \in ContentTexts, u \in BOOLEAN}
    \cup {ExportEnv(d, p, t, u) :
            d \in BOOLEAN, p \in {"spawnError", "exit0", "exit1"},
            t \in {<<>>, <<"b">>, <<"{", "k", "}">>}, u \in BOOLEAN}

\* A call exportSession(sessionId, directory) outside any run of runExport.
InitExport ==
  \E e \in ExportEnvs :
    /\ env = Env("exit0", TRUE, 0, <<>>)
    /\ options = DefaultOptions
    /\ run = 1
    /\ prev = NoPrev
    /\ pc = "exportSession"
    /\ thrown = ""
    /\ sessions = <<>>
    /\ idx = 0
    /\ stats = EmptyStats
    /\ createdDirs = {}
    /\ processedCount = 0
    /\ exported = ""
    /\ inFlight = {}
    /\ dirs = {}
    /\ files = {}
    /\ retry = IdleRetry
    /\ calls = <<>>
    /\ snapshots = <<>>
    /\ xp = CallExport(1, e)
    /\ cv = IdleConvert
    /\ lib = IdleLib

NextExport ==
  \/ ExportEntry
  \/ ExportExec
  \/ ExportParse
  \/ ExportFinally

SpecExport == InitExport /\ [][NextExport]_vars

\* ----------------------------------------------- convertSession step by step

\* An instant that is undefined: a value no Date holds.
NoInstant == MIN_ISO_YEAR - 1

\* A message without time.created and time.completed, which only a caller
\* that bypasses OpenCodeExportSchema can hand over.
MsgWithoutTime(id, tokens) ==
  [Msg(id, "assistant", NoInstant, FALSE, NoInstant, tokens)
     EXCEPT !.hasCreated = FALSE]

\* The messages an export is made of: a user message with token data; for
\* the id "a" a user message, an assistant message without token activity,
\* two assistant messages with the same instant and different tokens, and
\* one completed later with reasoning tokens only; for "b" one with cache-write tokens only and one without
\* token data; one without any instant; one whose instant is no valid Date;
\* one whose instant lies in the year 10000, which toISOString writes with a
\* sign and six digits.
MessagePool ==
  { Msg("u", "user", 2024, FALSE, 0, <<5, 5, 0, 0, 0>>),
    Msg("a", "user", 2024, FALSE, 0, <<3, 0, 0, 0, 0>>),
    Msg("a", "assistant", 2024, FALSE, 0, <<0, 0, 0, 0, 0>>),
    Msg("a", "assistant", 2024, FALSE, 0, <<100, 200, 50, 30, 0>>),
    Msg("a", "assistant", 2024, FALSE, 0, <<1, 2, 0, 0, 0>>),
    Msg("a", "assistant", 2024, TRUE, 2025, <<0, 0, 7, 0, 0>>),
    Msg("b", "assistant", 2023, FALSE, 0, <<0, 0, 0, 0, 15000>>),
    Msg("b", "assistant", 2023, FALSE, 0, <<>>),
    MsgWithoutTime("c", <<1, 1, 0, 0, 0>>),
    Msg("d", "assistant", MAX_ISO_YEAR + 1, FALSE, 0, <<1, 1, 0, 0, 0>>),
    Msg("e", "assistant", 10000, FALSE, 0, <<2, 3, 0, 0, 0>>) }

\* The exports of up to MaxMessages messages.
ExportPool ==
  { [info |-> [id |-> 1], messages |-> ms] :
      ms \in UNION {[1..n -> MessagePool] : n \in 0..MaxMessages} }

\* One iteration of the for loop; convertSession throws what convertMessage
\* throws.
ConvertNext ==
  /\ cv.state = "loop"
  /\ cv.i <= Len(cv.session.messages)
  /\ LET f == ConvertStep(cv, cv.session, cv.opt)
     IN cv' = IF f.threw THEN [f EXCEPT !.state = "threw"] ELSE f
  /\ UNCHANGED <<lib, xp, env, options, run, prev, pc, thrown, sessions, idx, stats,
                 createdDirs, processedCount, exported, inFlight, dirs, files,
                 retry, calls, snapshots>>

\* Lines 855-858: the loop is over; the lines are sorted and returned with
\* the skipped count.
ConvertReturn ==
  /\ cv.state = "loop"
  /\ cv.i > Len(cv.session.messages)
  /\ cv' = [cv EXCEPT !.lines = SortLines(@), !.state = "returned"]
  /\ UNCHANGED <<lib, xp, env, options, run, prev, pc, thrown, sessions, idx, stats,
                 createdDirs, processedCount, exported, inFlight, dirs, files,
                 retry, calls, snapshots>>

\* A call convertSession(session, {includeReasoningInOutput}) on its own.
InitConvert ==
  \E session \in ExportPool, opt \in BOOLEAN :
    /\ env = Env("exit0", TRUE, 0, <<>>)
    /\ options = [DefaultOptions EXCEPT !.includeReasoningInOutput = opt]
    /\ run = 1
    /\ prev = NoPrev
    /\ pc = "convertSession"
    /\ thrown = ""
    /\ sessions = <<>>
    /\ idx = 0
    /\ stats = EmptyStats
    /\ createdDirs = {}
    /\ processedCount = 0
    /\ exported = ""
    /\ inFlight = {}
    /\ dirs = {}
    /\ files = {}
    /\ retry = IdleRetry
    /\ calls = <<>>
    /\ snapshots = <<>>
    /\ xp = IdleExport
    /\ lib = IdleLib
    /\ cv = CallConvert(session, opt)

NextConvert ==
  \/ ConvertNext
  \/ ConvertReturn

SpecConvert == InitConvert /\ [][NextConvert]_vars

\* ------------------------------------------------ toJsonl (src/exporter.ts)

\* A text is the sequence of its characters; a run of characters that JSON
\* writes as they are counts as one character.

\* The character of a code of toISOTimestamp.
Chr(c) ==
  IF c = 43 THEN "+"
  ELSE IF c = 45 THEN "-"
  ELSE <<"0", "1", "2", "3", "4", "5", "6", "7", "8", "9">>[c - 47]

\* The text of a string of the model: the working directory "/w\nx" is the
\* only one that holds a line feed.
TextOf(s) == IF s = "/w\nx" THEN <<"/w", "\n", "x">> ELSE <<s>>

\* JSON.stringify of a string: quoted, a line feed written as the two
\* characters \n.
QuoteJSONString(text) ==
  <<"\"">> \o [i \in 1..Len(text) |-> IF text[i] = "\n" THEN "\\n" ELSE text[i]]
           \o <<"\"">>

\* A member of an object: "key":value, without white space.
Member(key, valueText) == QuoteJSONString(<<key>>) \o <<":">> \o valueText

\* JSON.stringify(line) without indentation: the members in the order
\* convertMessage sets them.
JSONStringify(line) ==
  LET usage == line.message.usage
      usageText ==
        <<"{">> \o Member("input_tokens", <<ToString(usage.input_tokens)>>)
        \o <<",">> \o Member("output_tokens", <<ToString(usage.output_tokens)>>)
        \o (IF "cache_read_input_tokens" \in DOMAIN usage
            THEN <<",">> \o Member("cache_read_input_tokens",
                                   <<ToString(usage.cache_read_input_tokens)>>)
            ELSE <<>>)
        \o (IF "cache_creation_input_tokens" \in DOMAIN usage
            THEN <<",">> \o Member("cache_creation_input_tokens",
                                   <<ToString(usage.cache_creation_input_tokens)>>)
            ELSE <<>>)
        \o <<"}">>
      messageText ==
        <<"{">> \o Member("id", QuoteJSONString(TextOf(line.message.id)))
        \o <<",">> \o Member("model", QuoteJSONString(TextOf(line.message.model)))
        \o <<",">> \o Member("usage", usageText)
        \o <<"}">>
      requestId == <<line.requestId[1], ":", ToString(line.requestId[2]), ":">>
                     \o TextOf(line.requestId[3])
  IN <<"{">>
     \o Member("timestamp",
               QuoteJSONString([i \in 1..Len(line.timestamp) |->
                                  Chr(line.timestamp[i])]))
     \o <<",">> \o Member("sessionId",
                          QuoteJSONString(<<ToString(line.sessionId)>>))
     \o <<",">> \o Member("requestId", QuoteJSONString(requestId))
     \o <<",">> \o Member("message", messageText)
     \o (IF "cwd" \in DOMAIN line
         THEN <<",">> \o Member("cwd", QuoteJSONString(TextOf(line.cwd)))
         ELSE <<>>)
     \o <<"}">>

\* parts.join(separator).
RECURSIVE Join(_, _)
Join(parts, separator) ==
  IF parts = <<>> THEN <<>>
  ELSE IF Len(parts) = 1 THEN parts[1]
  ELSE parts[1] \o separator \o Join(Tail(parts), separator)

\* Faulty variant: no line feed follows the last record.
toJsonlJoinOnly(lines) ==
  IF Len(lines) = 0 THEN <<>>
  ELSE LET parts == [i \in 1..Len(lines) |-> JSONStringify(lines[i])]
       IN Join(parts, <<"\n">>)

\* toJsonl(lines).
toJsonl(lines) ==
  IF Len(lines) = 0 THEN <<>>
  ELSE LET parts == [i \in 1..Len(lines) |-> JSONStringify(lines[i])]
       IN Join(parts, <<"\n">>) \o <<"\n">>

\* The lines toJsonl is called with: those of the messages convertSession
\* keeps, and one of a message that has a working directory.
LinePool ==
  { convertMessage(m, 1, TRUE) :
      m \in { x \in MessagePool :
                /\ x.role = "assistant"
                /\ hasValidTokens(x)
                /\ hasValidTimestamp(x)
                /\ ~convertMessageThrows(x) }
            \cup { [Msg("a", "assistant", 2024, FALSE, 0, <<1, 2, 0, 0, 0>>)
                      EXCEPT !.hasCwd = TRUE, !.cwd = "/w\nx"] } }

\* The frame of toJsonl(lines) at its entry.
CallToJsonl(lines) == [state |-> "toJsonl", lines |-> lines, result |-> <<>>]

\* The call toJsonl(lines) returns.
ToJsonl ==
  /\ lib.state = "toJsonl"
  /\ lib' = [lib EXCEPT !.state = "returned", !.result = toJsonl(lib.lines)]
  /\ UNCHANGED <<xp, cv, env, options, run, prev, pc, thrown, sessions, idx,
                 stats, createdDirs, processedCount, exported, inFlight, dirs,
                 files, retry, calls, snapshots>>

\* A call toJsonl(lines) on its own.
InitJsonl ==
  \E lines \in UNION {[1..n -> LinePool] : n \in 0..MaxMessages} :
    /\ env = Env("exit0", TRUE, 0, <<>>)
    /\ options = DefaultOptions
    /\ run = 1
    /\ prev = NoPrev
    /\ pc = "toJsonl"
    /\ thrown = ""
    /\ sessions = <<>>
    /\ idx = 0
    /\ stats = EmptyStats
    /\ createdDirs = {}
    /\ processedCount = 0
    /\ exported = ""
    /\ inFlight = {}
    /\ dirs = {}
    /\ files = {}
    /\ retry = IdleRetry
    /\ calls = <<>>
    /\ snapshots = <<>>
    /\ xp = IdleExport
    /\ cv = IdleConvert
    /\ lib = CallToJsonl(lines)

NextJsonl == ToJsonl

SpecJsonl == InitJsonl /\ [][NextJsonl]_vars

\* --------------------------------------------- listSessions (src/session.ts)

\* The most entries the session directories of a storage hold together.
MaxFiles == 3

\* The fields StoredSessionInfoSchema requires; title is optional.
RequiredFields == {"id", "projectID", "directory", "time.created", "time.updated"}

\* A file of a project directory: its name ends with .json or not, its
\* content is JSON text or not, and the JSON object holds some fields.
StoredFile(dotJson, json, fields, id, created) ==
  [dotJson |-> dotJson, json |-> json, fields |-> fields, id |-> id,
   projectID |-> "projA", directory |-> "/work/a", title |-> "t",
   created |-> created, updated |-> created + 1]

\* What a metadata file can lack: its JSON syntax or one required field.
Defects == {"syntax"} \cup RequiredFields

\* The files a project directory can hold: two valid metadata files, the
\* younger of them without title; a metadata file with a defect; a valid
\* metadata file whose name does not end with .json.
FilePool(defect) ==
  { StoredFile(TRUE, TRUE, RequiredFields \cup {"title"}, "s1", 10),
    StoredFile(TRUE, TRUE, RequiredFields, "s2", 20),
    StoredFile(TRUE, defect # "syntax",
               (RequiredFields \cup {"title"}) \ {defect}, "s3", 10),
    StoredFile(FALSE, TRUE, RequiredFields \cup {"title"}, "s4", 10) }

ProjectDirNames == {"projA", "projB"}

\* The entries of the project directories in the order readdir enumerates
\* them, directory after directory: the entries of one directory follow one
\* another.
Enumerations(defect) ==
  { en \in UNION { [1..n -> [dir : ProjectDirNames, file : FilePool(defect)]] :
                     n \in 0..MaxFiles } :
      \A i, j, k \in DOMAIN en :
        (i < j /\ j < k /\ en[i].dir = en[k].dir) => en[j].dir = en[i].dir }

\* The storage listSessions reads: "missing" (no session directory),
\* "unreadable" (readdir of the session directory fails), "projectUnreadable"
\* (readdir of a project directory fails) or "ok".
Storage(kind, entries) == [kind |-> kind, entries |-> entries]

Storages(defect) ==
  { Storage("ok", en) : en \in Enumerations(defect) }
  \cup { Storage(kind, en) :
           kind \in {"missing", "unreadable", "projectUnreadable"},
           en \in { x \in Enumerations(defect) : Len(x) = 1 } }

\* The values of since: none, or an instant.
Sinces == {NoInstant, 10, 20}

\* StoredSessionInfoSchema.safeParse(JSON.parse(content)): JSON.parse throws
\* on text that is not JSON, safeParse fails on a missing required field.
\* The answer is the SessionListItem, or null.
Null == [null |-> TRUE]

\* The answer of a read that has not ended.
Pending == [null |-> TRUE, pending |-> TRUE]

ParseStoredSession(file) ==
  IF ~file.json THEN Null
  ELSE IF ~(RequiredFields \subseteq file.fields) THEN Null
  ELSE [null |-> FALSE,
        id |-> file.id,
        title |-> IF "title" \in file.fields THEN file.title ELSE "",
        updated |-> file.updated,
        created |-> file.created,
        projectId |-> file.projectID,
        directory |-> file.directory]

\* Array.prototype.sort with the comparator a.created - b.created: a stable
\* sort.
RECURSIVE InsertSession(_, _)
InsertSession(sorted, s) ==
  IF sorted = <<>> THEN <<s>>
  ELSE IF Head(sorted).created - s.created <= 0
       THEN <<Head(sorted)>> \o InsertSession(Tail(sorted), s)
       ELSE <<s>> \o sorted

RECURSIVE SortSessions(_)
SortSessions(list) ==
  IF list = <<>> THEN <<>>
  ELSE InsertSession(SortSessions(SubSeq(list, 1, Len(list) - 1)),
                     list[Len(list)])

\* The frame of listSessions(since) at its entry: the answer of each read,
\* Pending until the read has ended, and as history the entry whose read
\* ended first (0 while none has).
CallListSessions(since, storage) ==
  [state |-> "listSessions", since |-> since, storage |-> storage,
   answers |-> [i \in DOMAIN storage.entries |-> Pending],
   firstEnded |-> 0, result |-> <<>>]

\* Lines 58-72 and 120-122: without session directory the answer is the empty list; a
\* readdir that fails makes listSessions throw; otherwise the reads of all
\* files named *.json begin.
listSessionsEntry(f) ==
  IF f.storage.kind = "missing" THEN [f EXCEPT !.state = "returned"]
  ELSE IF f.storage.kind \in {"unreadable", "projectUnreadable"}
       THEN [f EXCEPT !.state = "threw"]
  ELSE [f EXCEPT !.state = "reading"]

\* The entries whose file is read.
JsonFiles(f) == {i \in DOMAIN f.storage.entries : f.storage.entries[i].file.dotJson}

\* Faulty variant: a file that cannot be parsed ends the whole call.
listSessionsReadStrict(f, i) ==
  IF ParseStoredSession(f.storage.entries[i].file) = Null
  THEN [f EXCEPT !.state = "threw"]
  ELSE [f EXCEPT !.answers[i] = ParseStoredSession(f.storage.entries[i].file),
                 !.firstEnded = IF @ = 0 THEN i ELSE @]

\* Lines 76-98: the read of one file ends and gives its item or null.
listSessionsRead(f, i) ==
  [f EXCEPT !.answers[i] = ParseStoredSession(f.storage.entries[i].file),
            !.firstEnded = IF @ = 0 THEN i ELSE @]

\* Faulty variant: the sessions are returned in the order of enumeration.
listSessionsReturnUnsorted(f) ==
  LET found == SelectSeq([i \in DOMAIN f.answers |-> f.answers[i]],
                         LAMBDA a : ~a.null)
      filteredSessions ==
        IF f.since # NoInstant
        THEN SelectSeq(found, LAMBDA s : s.created >= f.since)
        ELSE found
  IN [f EXCEPT !.state = "returned", !.result = filteredSessions]

\* Faulty variant: a session created at the instant since is left out.
listSessionsReturnExclusive(f) ==
  LET found == SelectSeq([i \in DOMAIN f.answers |-> f.answers[i]],
                         LAMBDA a : ~a.null)
      filteredSessions ==
        IF f.since # NoInstant
        THEN SelectSeq(found, LAMBDA s : s.created > f.since)
        ELSE found
  IN [f EXCEPT !.state = "returned", !.result = SortSessions(filteredSessions)]

\* Lines 101-119: all reads have ended; the items that are not null, in the
\* order of enumeration, are filtered by since and sorted.
listSessionsReturn(f) ==
  LET found == SelectSeq([i \in DOMAIN f.answers |-> f.answers[i]],
                         LAMBDA a : ~a.null)
      filteredSessions ==
        IF f.since # NoInstant
        THEN SelectSeq(found, LAMBDA s : s.created >= f.since)
        ELSE found
  IN [f EXCEPT !.state = "returned", !.result = SortSessions(filteredSessions)]

ListEntry ==
  /\ lib.state = "listSessions"
  /\ lib' = listSessionsEntry(lib)
  /\ UNCHANGED <<xp, cv, env, options, run, prev, pc, thrown, sessions, idx,
                 stats, createdDirs, processedCount, exported, inFlight, dirs,
                 files, retry, calls, snapshots>>

\* The reads end in any order.
ListRead ==
  /\ lib.state = "reading"
  /\ \E i \in JsonFiles(lib) :
       /\ lib.answers[i] = Pending
       /\ lib' = listSessionsRead(lib, i)
  /\ UNCHANGED <<xp, cv, env, options, run, prev, pc, thrown, sessions, idx,
                 stats, createdDirs, processedCount, exported, inFlight, dirs,
                 files, retry, calls, snapshots>>

ListReturn ==
  /\ lib.state = "reading"
  /\ \A i \in JsonFiles(lib) : lib.answers[i] # Pending
  /\ lib' = listSessionsReturn(lib)
  /\ UNCHANGED <<xp, cv, env, options, run, prev, pc, thrown, sessions, idx,
                 stats, createdDirs, processedCount, exported, inFlight, dirs,
                 files, retry, calls, snapshots>>

\* A call listSessions(since) on its own.
InitList ==
  \E defect \in Defects :
    \E storage \in Storages(defect), since \in Sinces :
      /\ env = Env("exit0", TRUE, 0, <<>>)
      /\ options = DefaultOptions
      /\ run = 1
      /\ prev = NoPrev
      /\ pc = "listSessions"
      /\ thrown = ""
      /\ sessions = <<>>
      /\ idx = 0
      /\ stats = EmptyStats
      /\ createdDirs = {}
      /\ processedCount = 0
      /\ exported = ""
      /\ inFlight = {}
      /\ dirs = {}
      /\ files = {}
      /\ retry = IdleRetry
      /\ calls = <<>>
      /\ snapshots = <<>>
      /\ xp = IdleExport
      /\ cv = IdleConvert
      /\ lib = CallListSessions(since, storage)

NextList ==
  \/ ListEntry
  \/ ListRead
  \/ ListReturn

SpecList == InitList /\ [][NextList]_vars

\* ------------------------------------- createExportOptions (src/exporter.ts)

\* The values of an option: a boolean, a string, a Date, or undefined.
Bool(b) == [type |-> "boolean", value |-> b]

Str(s) == [type |-> "string", value |-> s]

DateOf(year) == [type |-> "Date", value |-> year]

Undefined == [type |-> "undefined"]

\* A command line: the subcommand and the options given on it. A flag is
\* TRUE when it is given; reasoning is "" (neither flag), "include" or
\* "no-include"; groupBy is "" when --group-by is not given.
Argv(command, overwrite, reasoning, groupBy, dryRun, verbose, since) ==
  [command |-> command, overwrite |-> overwrite, reasoning |-> reasoning,
   groupBy |-> groupBy, dryRun |-> dryRun, verbose |-> verbose,
   since |-> since]

\* The command lines of the three subcommands that reach createExportOptions,
\* each with the options it declares.
Argvs ==
  { Argv("advanced", o, r, g, d, v, s) :
      o \in BOOLEAN, r \in {"", "include", "no-include"},
      g \in {"", "bogus"} \cup GroupBys, d \in BOOLEAN, v \in BOOLEAN,
      s \in BOOLEAN }
  \cup { Argv("export", FALSE, "", "", d, v, s) :
           d \in BOOLEAN, v \in BOOLEAN, s \in BOOLEAN }
  \cup { Argv("report", FALSE, "", "", FALSE, v, s) :
           v \in BOOLEAN, s \in BOOLEAN }

\* The opts commander hands to the action of the advanced command: an
\* option declared with a default holds it when it is not given;
\* --include-reasoning-in-output is declared without default before its
\* --no- form, so it is undefined when neither is given.
AdvancedOpts(argv) ==
  [overwrite |-> Bool(argv.overwrite),
   includeReasoningInOutput |->
     IF argv.reasoning = "" THEN Undefined
     ELSE Bool(argv.reasoning = "include"),
   groupBy |-> Str(IF argv.groupBy = "" THEN "flat" ELSE argv.groupBy),
   opencodeDir |-> Undefined,
   dryRun |-> Bool(argv.dryRun),
   verbose |-> Bool(argv.verbose)]

\* parseSinceOrExit(opts.since) for a value that is a date, or not given.
SinceOf(argv) == IF argv.since THEN DateOf(2024) ELSE Undefined

\* The overrides object each action builds for createExportOptions.
Overrides(argv) ==
  IF argv.command = "advanced"
  THEN LET opts == AdvancedOpts(argv)
       IN [overwrite |-> opts.overwrite,
           since |-> SinceOf(argv),
           includeReasoningInOutput |-> opts.includeReasoningInOutput,
           groupBy |-> opts.groupBy,
           openCodeDir |-> opts.opencodeDir,
           dryRun |-> opts.dryRun,
           verbose |-> opts.verbose]
  ELSE IF argv.command = "export"
  THEN [since |-> SinceOf(argv),
        dryRun |-> Bool(argv.dryRun),
        verbose |-> Bool(argv.verbose),
        concurrency |-> Undefined,
        incremental |-> Bool(FALSE),
        skipValidation |-> Bool(FALSE)]
  ELSE [since |-> SinceOf(argv), verbose |-> Bool(argv.verbose)]

\* The defaults createExportOptions starts from.
OptionDefaults(outDir) ==
  [outDir |-> Str(outDir),
   overwrite |-> Bool(TRUE),
   includeReasoningInOutput |-> Bool(TRUE),
   groupBy |-> Str("flat"),
   dryRun |-> Bool(FALSE),
   verbose |-> Bool(FALSE)]

\* createExportOptions(outDir, overrides): {outDir, ...defaults,
\* ...overrides}; the spread copies every own property of overrides, one
\* whose value is undefined included.
createExportOptions(outDir, overrides) ==
  LET defaults == OptionDefaults(outDir)
  IN [k \in DOMAIN defaults \cup DOMAIN overrides |->
        IF k \in DOMAIN overrides THEN overrides[k] ELSE defaults[k]]

\* The frame of the action of a subcommand at its entry.
CallAction(argv) ==
  [state |-> "action", argv |-> argv, overrides |-> <<>>, result |-> <<>>]

\* The action up to the call of createExportOptions: the advanced command
\* exits on a --group-by value that is no strategy.
ActionBuildsOverrides ==
  /\ lib.state = "action"
  /\ lib' = IF lib.argv.command = "advanced"
               /\ AdvancedOpts(lib.argv).groupBy.value \notin GroupBys
            THEN [lib EXCEPT !.state = "exited"]
            ELSE [lib EXCEPT !.state = "createExportOptions",
                             !.overrides = Overrides(lib.argv)]
  /\ UNCHANGED <<xp, cv, env, options, run, prev, pc, thrown, sessions, idx,
                 stats, createdDirs, processedCount, exported, inFlight, dirs,
                 files, retry, calls, snapshots>>

\* The call createExportOptions(out, overrides) returns.
CreateExportOptions ==
  /\ lib.state = "createExportOptions"
  /\ lib' = [lib EXCEPT !.state = "returned",
                        !.result = createExportOptions("out", lib.overrides)]
  /\ UNCHANGED <<xp, cv, env, options, run, prev, pc, thrown, sessions, idx,
                 stats, createdDirs, processedCount, exported, inFlight, dirs,
                 files, retry, calls, snapshots>>

\* A subcommand run from its command line up to its export options.
InitOptions ==
  \E argv \in Argvs :
    /\ env = Env("exit0", TRUE, 0, <<>>)
    /\ options = DefaultOptions
    /\ run = 1
    /\ prev = NoPrev
    /\ pc = "createExportOptions"
    /\ thrown = ""
    /\ sessions = <<>>
    /\ idx = 0
    /\ stats = EmptyStats
    /\ createdDirs = {}
    /\ processedCount = 0
    /\ exported = ""
    /\ inFlight = {}
    /\ dirs = {}
    /\ files = {}
    /\ retry = IdleRetry
    /\ calls = <<>>
    /\ snapshots = <<>>
    /\ xp = IdleExport
    /\ cv = IdleConvert
    /\ lib = CallAction(argv)

NextOptions ==
  \/ ActionBuildsOverrides
  \/ CreateExportOptions

SpecOptions == InitOptions /\ [][NextOptions]_vars

\* ------------------------------------------------------------------ claims

\* Whether runExport called op for the session at position i.
Called(op, i) ==
  \E n \in DOMAIN calls : Len(calls[n]) >= 2 /\ calls[n][1] = op /\ calls[n][2] = i

\* The stats before iteration i of the loop.
StatsBefore(i) == IF i = 1 THEN [EmptyStats EXCEPT !.sessionsDiscovered = Len(sessions)]
                  ELSE snapshots[i - 1]

\* The output file of the session at position i as the run found it.
InitialFile(i) ==
  {f \in InitialFiles(env, options.groupBy) :
     f.path = OutFile(env.sessions[i], options.groupBy)}

CurrentFile(i) ==
  {f \in files : f.path = OutFile(env.sessions[i], options.groupBy)}

\* Whether, when n sessions had been processed, at least 10 had been and more
\* than 25% of the processed sessions had failed to export.
ThresholdTripped(n) ==
  \E k \in 10..n : k <= Len(snapshots) /\ 4 * Len(snapshots[k].errors) > k

\* C1: once at least 10 sessions have been processed and errors/processed
\* exceeds 25%, every session not yet started is counted in sessionsSkipped
\* without the exporter being invoked for it and adds no entry to
\* stats.errors.
C1_AbortSkipsRemainingSessions ==
  \A i \in 1..Len(sessions) :
    ThresholdTripped(i - 1) =>
      /\ ~Called("exportSessionWithRetry", i)
      /\ i <= Len(snapshots) =>
           /\ snapshots[i].sessionsSkipped = StatsBefore(i).sessionsSkipped + 1
           /\ snapshots[i].errors = StatsBefore(i).errors

\* C2: when exportSessionWithRetry returns null for a session, exactly one
\* error string naming that session is appended to stats.errors, the loop
\* goes on to the next session (or returns after the last), and runExport
\* does not throw.
C2_NullExportRecordedAndBatchContinues ==
  [][ (pc = "export" /\ retry.state = "returned" /\ retry.result = "null") =>
        /\ stats'.errors =
             Append(stats.errors, <<"Failed to export session", sessions[idx].id>>)
        /\ [stats' EXCEPT !.errors = stats.errors] = stats
        /\ idx' = idx + 1
        /\ pc' = IF idx < Len(sessions) THEN "mkdir" ELSE "done"
        /\ thrown' = "" ]_vars

\* C2 witness: the first of two sessions failed to export, the second was
\* exported after it, and the run returned.
C2_Witness ==
  /\ pc = "done"
  /\ Len(sessions) = 2
  /\ stats.errors = << <<"Failed to export session", 1>> >>
  /\ stats.sessionsExported = 1
  /\ Called("writeFile", 2)

\* C3: with overwrite disabled, a session whose output file already exists
\* is counted in sessionsSkipped and not in sessionsExported, the exporter is
\* never invoked for it, and its file is not written.
C3_ExistingFileSkippedWithoutOverwrite ==
  \A i \in 1..Len(sessions) :
    (~options.overwrite /\ env.world[i].file # "absent") =>
      /\ ~Called("exportSessionWithRetry", i)
      /\ ~Called("writeFile", i)
      /\ CurrentFile(i) = InitialFile(i)
      /\ i <= Len(snapshots) =>
           /\ snapshots[i].sessionsSkipped = StatsBefore(i).sessionsSkipped + 1
           /\ snapshots[i].sessionsExported = StatsBefore(i).sessionsExported
           /\ snapshots[i].errors = StatsBefore(i).errors

\* C3 witness: a run without overwrite has returned after skipping a session
\* whose file existed and exporting another.
C3_Witness ==
  /\ pc = "done"
  /\ run = 1
  /\ ~options.overwrite
  /\ Len(sessions) = 2
  /\ env.world[1].file = "stale"
  /\ env.world[2].file = "absent"
  /\ stats.sessionsSkipped = 1
  /\ stats.sessionsExported = 1

\* C4: with incremental mode enabled, a session whose existing output file
\* has a modification time at or after the session's last-updated time is
\* counted as skipped and the exporter is never invoked for it.
C4_IncrementalSkipsFreshFile ==
  \A i \in 1..Len(sessions) :
    ( /\ options.incremental
      /\ \E f \in InitialFile(i) : f.mtime >= sessions[i].updated ) =>
      /\ ~Called("exportSessionWithRetry", i)
      /\ i <= Len(snapshots) =>
           snapshots[i].sessionsSkipped = StatsBefore(i).sessionsSkipped + 1

\* C5: when the availability probe fails, runExport throws before session
\* discovery starts and before any exporter invocation, directory creation
\* or file write.
C5_FailedProbeThrowsBeforeAnything ==
  (pc # "start" /\ env.probe # "exit0") =>
    /\ pc = "thrown"
    /\ thrown = "preflight"
    /\ calls = << <<"checkOpenCodeAvailable">> >>
    /\ sessions = <<>>
    /\ stats = EmptyStats
    /\ dirs = {}
    /\ files = InitialFiles(env, options.groupBy)
    /\ retry = IdleRetry

\* C5 witness: the probe could not be spawned, there were sessions to
\* discover, and runExport has thrown.
C5_Witness ==
  /\ pc = "thrown"
  /\ env.probe = "spawnError"
  /\ Len(env.sessions) = 2

\* C6: runExport throws only when the preflight or the enumeration of the
\* sessions fails; no failure of the processing of a session (export,
\* conversion, directory creation, file write) is thrown to the caller.
C6_OnlyPreconditionFailuresThrow ==
  thrown \in {"", "preflight", "enumeration"}

\* The concurrency overrides the CLI can hand over (0: none given) and the
\* CPU counts of the machine.
ConcurrencyOverrides == (0 - 1)..MaxOverride

CpuCounts == 1..MaxCpus

\* C7: at every moment the number of sessions in flight is at most the
\* resolved concurrency, which is the override when it is positive and
\* otherwise lies in 8..32.
C7_InFlightWithinConcurrency ==
  \A o \in ConcurrencyOverrides, c \in CpuCounts :
    /\ Cardinality(inFlight) <= getOptimalConcurrency(o, c)
    /\ o > 0 => getOptimalConcurrency(o, c) = o
    /\ o <= 0 => getOptimalConcurrency(o, c) \in 8..32

\* C7 witness: a session is in flight, its export under way, which is as
\* many as an override of 1 allows.
C7_Witness ==
  /\ pc = "export"
  /\ retry.state = "delay"
  /\ Cardinality(inFlight) = getOptimalConcurrency(1, MaxCpus)

NoFsWrite(c) == c[1] \notin {"mkdir", "writeFile"}

IsPrefix(a, b) == Len(a) <= Len(b) /\ SubSeq(b, 1, Len(a)) = a

\* C9 as stated: the dry run of the same inputs makes the calls of the
\* normal run but for the file writes (directory creation included), and
\* the stats both return are equal.
C9_DryRunSameStepsButWrite ==
  (run = 2 /\ pc = "done" /\ prev.pc = "done") =>
    /\ calls = SelectSeq(prev.calls, LAMBDA c : c[1] # "writeFile")
    /\ stats = prev.stats

\* C9 amended: the dry run of the same inputs creates no directory and
\* writes no file; its other calls and its stats after each session are
\* those of the normal run for as far as the normal run got; when both
\* return, the stats they return are equal.
C9_DryRunSameButMkdirAndWrite ==
  run = 2 =>
    /\ calls = SelectSeq(calls, NoFsWrite)
    /\ dirs = {}
    /\ files = InitialFiles(env, options.groupBy)
    /\ \/ IsPrefix(calls, SelectSeq(prev.calls, NoFsWrite))
       \/ IsPrefix(SelectSeq(prev.calls, NoFsWrite), calls)
    /\ \A i \in 1..Min(Len(snapshots), Len(prev.snapshots)) :
         snapshots[i] = prev.snapshots[i]
    /\ (pc = "done" /\ prev.pc = "done") => stats = prev.stats

\* C9 witness: both runs returned; the normal run created a directory and
\* wrote a file, and both exported a session and skipped one.
C9_Witness ==
  /\ run = 2
  /\ pc = "done"
  /\ prev.pc = "done"
  /\ \E n \in DOMAIN prev.calls : prev.calls[n][1] = "mkdir"
  /\ \E n \in DOMAIN prev.calls : prev.calls[n][1] = "writeFile"
  /\ stats.sessionsExported = 1
  /\ stats.sessionsSkipped = 1

\* Whether attempt j of the call under way fails.
AttemptFails(j) == exportSession(retry.sessionId, retry.plan[j]).threw

\* C10: exportSessionWithRetry never throws; it calls exportSession at most
\* maxRetries + 1 times, returns the data of the first attempt that succeeds
\* without trying again, and returns null exactly when all maxRetries + 1
\* attempts fail.
C10_RetryReturnsFirstSuccessOrNull ==
  /\ retry.state \in {"try", "delay", "returned"}
  /\ retry.exportCalls <= retry.maxRetries + 1
  /\ \A j \in 1..retry.exportCalls :
       j < retry.exportCalls => AttemptFails(j)
  /\ retry.state = "returned" =>
       /\ retry.exportCalls >= 1
       /\ retry.result \in {"data", "null"}
       /\ retry.result = "data" =>
            /\ ~AttemptFails(retry.exportCalls)
            /\ retry.kind = retry.plan[retry.exportCalls].kind
       /\ retry.result = "null" <=>
            \A j \in 1..(retry.maxRetries + 1) : AttemptFails(j)
  /\ (retry.state # "returned" /\ retry.exportCalls >= 1) =>
       AttemptFails(retry.exportCalls)

\* C10 witness: with maxRetries = 2 the third attempt succeeded after two
\* failures and its data was returned.
C10_Witness ==
  /\ retry.state = "returned"
  /\ retry.result = "data"
  /\ retry.maxRetries = 2
  /\ retry.exportCalls = 3

\* C11: when the session's directory does not exist, exportSession throws
\* the error 'Session directory does not exist' without having started the
\* subprocess or created the temp file (nor read, parsed or unlinked it).
C11_MissingDirectoryFailsFast ==
  (xp.state # "idle" /\ xp.state # "entry" /\ ~xp.env.dirExists) =>
    /\ xp.state = "threw"
    /\ xp.error = "Session directory does not exist"
    /\ xp.spawns = 0
    /\ ~xp.tmpExists
    /\ xp.reads = 0
    /\ xp.parses = 0

\* C11 witness: the call has thrown for a missing directory although the
\* tool would have exited with code 0.
C11_Witness ==
  /\ xp.state = "threw"
  /\ ~xp.env.dirExists
  /\ xp.env.proc = "exit0"
  /\ xp.env.text = <<"{", "k", "}">>

\* C12: when a call of exportSession that got past the directory check has
\* returned or thrown, the unlink of the temp file has been performed, once,
\* whatever the outcome; the temp file is gone unless that unlink failed.
C12_TempFileUnlinkedOnEveryOutcome ==
  (xp.state \in {"returned", "threw"} /\ xp.env.dirExists) =>
    /\ xp.unlinks = 1
    /\ xp.tmpExists => xp.env.unlinkFails

\* C12 witness: the call has thrown on a schema violation, after the temp
\* file was created, and the file is gone.
C12_Witness ==
  /\ xp.state = "threw"
  /\ xp.error = "Invalid export JSON"
  /\ xp.spawns = 1
  /\ xp.unlinks = 1
  /\ ~xp.tmpExists

\* The text from the first "{" of the content of the temp file on.
FromFirstBrace(text) ==
  LET first == CHOOSE n \in DOMAIN text :
                 text[n] = "{" /\ \A m \in 1..(n - 1) : text[m] # "{"
  IN [i \in 1..(Len(text) - first + 1) |-> text[first + i - 1]]

\* C13: once exportSession has read the temp file, either the content holds
\* no "{", nothing was parsed and the call fails with 'No JSON found', or
\* the text handed to the parser is the content from its first "{" on, and
\* the call succeeds exactly when that text is the JSON of a valid export.
C13_ParsesFromFirstBrace ==
  (xp.state \in {"finally", "returned", "threw"} /\ xp.reads = 1) =>
    IF \A n \in DOMAIN xp.env.text : xp.env.text[n] # "{"
    THEN /\ xp.parses = 0
         /\ xp.outcome = "throw"
         /\ xp.error = "No JSON found in export output"
    ELSE /\ xp.parses = 1
         /\ xp.parsedText = FromFirstBrace(xp.env.text)
         /\ xp.outcome = "return" <=>
              SelectSeq(FromFirstBrace(xp.env.text), LAMBDA c : c # "n")
                = <<"{", "k", "}">>

\* C13 witness: a banner precedes the JSON of a valid export and the call
\* has returned it.
C13_Witness ==
  /\ xp.state = "returned"
  /\ xp.env.text = <<"b", "{", "k", "}">>
  /\ xp.parsedText = <<"{", "k", "}">>

\* The messages of the export under conversion.
CvMsgs == cv.session.messages

\* Whether a line carries the id and the chosen instant of the message at
\* position i.
Matches(line, i) ==
  /\ line.message.id = CvMsgs[i].id
  /\ line.timestamp = toISOTimestamp(getTimestamp(CvMsgs[i]))

\* The message a line was pushed for.
Origin(line) == CvMsgs[CHOOSE i \in cv.kept : Matches(line, i)]

\* Whether any of the five token fields of a message is greater than zero.
AnyTokenPositive(m) ==
  m.hasTokens /\ \E v \in {m.input, m.output, m.reasoning, m.cacheRead,
                           m.cacheWrite} : v > 0

\* C14: every line of convertSession carries the id, instant and input
\* tokens of an assistant message of the input, no two lines stand for the
\* same message, and a line was pushed for assistant messages only.
C14_LinesOnlyFromAssistantMessages ==
  cv.state \in {"loop", "returned"} =>
    /\ \A k \in DOMAIN cv.lines :
         \E i \in DOMAIN CvMsgs :
           /\ CvMsgs[i].role = "assistant"
           /\ Matches(cv.lines[k], i)
           /\ cv.lines[k].message.usage.input_tokens = CvMsgs[i].input
    /\ \A k1, k2 \in DOMAIN cv.lines :
         k1 # k2 => \/ cv.lines[k1].message.id # cv.lines[k2].message.id
                    \/ cv.lines[k1].timestamp # cv.lines[k2].timestamp
    /\ Cardinality(cv.kept) = Len(cv.lines)
    /\ \A i \in cv.kept : CvMsgs[i].role = "assistant"

\* C14 witness: of a user message with token data and an assistant message,
\* only the assistant message has a line.
C14_Witness ==
  /\ cv.state = "returned"
  /\ Len(CvMsgs) = 2
  /\ CvMsgs[1].role = "user"
  /\ hasValidTokens(CvMsgs[1])
  /\ CvMsgs[2].role = "assistant"
  /\ Len(cv.lines) = 1
  /\ cv.lines[1].message.id = CvMsgs[2].id

\* C15: the iteration on an assistant message whose five token fields are
\* all zero pushes no line and adds one to skippedCount; the iteration on
\* one with a field greater than zero (that has an instant, a valid one, and
\* is no duplicate of a kept message) pushes its line and counts nothing.
C15_ZeroTokensSkippedAnyTokenKept ==
  [][ ( /\ cv.state = "loop"
        /\ cv.i <= Len(CvMsgs)
        /\ CvMsgs[cv.i].role = "assistant"
        /\ CvMsgs[cv.i].hasTokens ) =>
      LET m == CvMsgs[cv.i]
      IN /\ ~AnyTokenPositive(m) =>
              /\ cv'.lines = cv.lines
              /\ cv'.kept = cv.kept
              /\ cv'.skippedCount = cv.skippedCount + 1
         /\ ( /\ AnyTokenPositive(m)
              /\ m.hasCreated \/ m.hasCompleted
              /\ IsValidDate(getTimestamp(m))
              /\ \A j \in cv.kept :
                   \/ CvMsgs[j].id # m.id
                   \/ getTimestamp(CvMsgs[j]) # getTimestamp(m) ) =>
              /\ Len(cv'.lines) = Len(cv.lines) + 1
              /\ cv'.lines[Len(cv'.lines)].message.id = m.id
              /\ cv'.kept = cv.kept \cup {cv.i}
              /\ cv'.skippedCount = cv.skippedCount ]_vars

\* C15 witness: of a message without token activity, one with cache-write
\* tokens only and one with reasoning tokens only, the first was skipped and
\* the other two have a line.
C15_Witness ==
  /\ cv.state = "returned"
  /\ Len(CvMsgs) = 3
  /\ \A i \in 1..3 : CvMsgs[i].role = "assistant" /\ CvMsgs[i].hasTokens
  /\ ~AnyTokenPositive(CvMsgs[1])
  /\ CvMsgs[2].cacheWrite > 0 /\ CvMsgs[2].input = 0 /\ CvMsgs[2].output = 0
  /\ CvMsgs[3].reasoning > 0 /\ CvMsgs[3].input = 0 /\ CvMsgs[3].output = 0
  /\ cv.kept = {2, 3}
  /\ cv.skippedCount = 1

\* Whether the message at position i passes the role, token and timestamp
\* checks.
Eligible(i) ==
  /\ CvMsgs[i].role = "assistant"
  /\ AnyTokenPositive(CvMsgs[i])
  /\ CvMsgs[i].hasCreated \/ CvMsgs[i].hasCompleted

\* Whether the messages at i and j share the pair (id, chosen instant).
SamePair(i, j) ==
  /\ CvMsgs[i].id = CvMsgs[j].id
  /\ getTimestamp(CvMsgs[i]) = getTimestamp(CvMsgs[j])

\* Whether an eligible message is a later duplicate of an eligible message.
LaterDuplicate(i) == \E j \in 1..(i - 1) : Eligible(j) /\ SamePair(i, j)

\* C16: of the eligible messages that share the pair (id, chosen instant)
\* exactly the first has a line, which carries the fields of that first
\* message; every later one of them adds one to skippedCount; messages with
\* the same id and different chosen instants do not shadow each other.
C16_FirstOfPairKeptLaterCounted ==
  cv.state = "returned" =>
    /\ \A i \in DOMAIN CvMsgs :
         Eligible(i) => (i \in cv.kept <=> ~LaterDuplicate(i))
    /\ \A i \in cv.kept :
         \E k \in DOMAIN cv.lines :
           /\ Matches(cv.lines[k], i)
           /\ cv.lines[k].message.usage.input_tokens = CvMsgs[i].input
    /\ cv.skippedCount =
         Cardinality({i \in DOMAIN CvMsgs :
                        CvMsgs[i].role = "assistant" /\ ~Eligible(i)})
         + Cardinality({i \in DOMAIN CvMsgs : Eligible(i) /\ LaterDuplicate(i)})

\* C16 witness: two messages share id and instant and differ in their
\* tokens, a third has the id and a later instant; the first and the third
\* have a line and the second was counted as skipped.
C16_Witness ==
  /\ cv.state = "returned"
  /\ Len(CvMsgs) = 3
  /\ \A i \in 1..3 : Eligible(i) /\ CvMsgs[i].id = CvMsgs[1].id
  /\ SamePair(1, 2)
  /\ CvMsgs[1].input # CvMsgs[2].input
  /\ ~SamePair(1, 3)
  /\ cv.kept = {1, 3}
  /\ cv.skippedCount = 1

\* What convertSession returns for the same export with the other value of
\* includeReasoningInOutput.
OtherOption == convertSession(cv.session, ~cv.opt)

\* A line without its output tokens.
WithoutOutputTokens(line) ==
  [line EXCEPT !.message.usage.output_tokens = 0]

\* C17: for the same export, with includeReasoningInOutput the output
\* tokens of every line are output + reasoning of its message, without it
\* they are output; both calls convert the same messages in the same order
\* and the lines agree in every other field.
C17_ReasoningOnlyChangesOutputTokens ==
  cv.state = "returned" =>
    LET with == IF cv.opt THEN cv.lines ELSE OtherOption.lines
        without == IF cv.opt THEN OtherOption.lines ELSE cv.lines
    IN /\ ~OtherOption.threw
       /\ OtherOption.skippedCount = cv.skippedCount
       /\ Len(with) = Len(without)
       /\ \A k \in DOMAIN with :
            /\ WithoutOutputTokens(with[k]) = WithoutOutputTokens(without[k])
            /\ with[k].message.usage.output_tokens =
                 Origin(with[k]).output + Origin(with[k]).reasoning
            /\ without[k].message.usage.output_tokens = Origin(without[k]).output

\* C17 witness: a call without includeReasoningInOutput has returned the
\* line of a message with output and reasoning tokens.
C17_Witness ==
  /\ cv.state = "returned"
  /\ ~cv.opt
  /\ Len(cv.lines) = 1
  /\ Origin(cv.lines[1]).reasoning > 0
  /\ Origin(cv.lines[1]).output > 0
  /\ cv.lines[1].message.usage.output_tokens = Origin(cv.lines[1]).output

\* C18: in every line cache_read_input_tokens is absent when cache.read of
\* its message is 0 and holds that value when it is greater; likewise
\* cache_creation_input_tokens for cache.write.
C18_CacheFieldsPresentIffPositive ==
  cv.state \in {"loop", "returned"} =>
    \A k \in DOMAIN cv.lines :
      LET usage == cv.lines[k].message.usage
          m == Origin(cv.lines[k])
      IN /\ m.cacheRead = 0 => "cache_read_input_tokens" \notin DOMAIN usage
         /\ m.cacheRead > 0 =>
              /\ "cache_read_input_tokens" \in DOMAIN usage
              /\ usage.cache_read_input_tokens = m.cacheRead
         /\ m.cacheWrite = 0 => "cache_creation_input_tokens" \notin DOMAIN usage
         /\ m.cacheWrite > 0 =>
              /\ "cache_creation_input_tokens" \in DOMAIN usage
              /\ usage.cache_creation_input_tokens = m.cacheWrite

\* C18 witness: one line of a message that read the cache and wrote nothing
\* to it, one of a message that only wrote to it.
C18_Witness ==
  /\ cv.state = "returned"
  /\ Len(cv.lines) = 2
  /\ DOMAIN cv.lines[1].message.usage =
       {"input_tokens", "output_tokens", "cache_creation_input_tokens"}
  /\ DOMAIN cv.lines[2].message.usage =
       {"input_tokens", "output_tokens", "cache_read_input_tokens"}

\* The assistant messages of the export under conversion.
AssistantMsgs == {i \in DOMAIN CvMsgs : CvMsgs[i].role = "assistant"}

\* C19 as stated: when convertSession returns, the lines and the skipped
\* count add up to the number of messages of the export.
C19_LinesPlusSkippedIsAllMessages ==
  cv.state = "returned" => Len(cv.lines) + cv.skippedCount = Len(CvMsgs)

\* C19 amended: the lines and the skipped count add up to the number of
\* assistant messages met so far, and of the export when convertSession
\* returns: a message that is not an assistant message is left out of both.
C19_LinesPlusSkippedIsAssistantMessages ==
  /\ cv.state = "loop" =>
       Len(cv.lines) + cv.skippedCount =
         Cardinality({i \in AssistantMsgs : i < cv.i})
  /\ cv.state = "returned" =>
       Len(cv.lines) + cv.skippedCount = Cardinality(AssistantMsgs)

\* C19 witness: of a user message, an assistant message without token
\* activity and a billable one, one is counted as skipped and one has a line.
C19_Witness ==
  /\ cv.state = "returned"
  /\ Len(CvMsgs) = 3
  /\ Cardinality(AssistantMsgs) = 2
  /\ Len(cv.lines) = 1
  /\ cv.skippedCount = 1

\* The four filter checks of convertSession and the orders to apply them in.
FilterChecks == {"role", "tokens", "timestamp", "dedup"}

FilterOrders ==
  {o \in [1..4 -> FilterChecks] : \A c \in FilterChecks : \E n \in 1..4 : o[n] = c}

\* The place of a check in an order.
PlaceOf(o, c) == CHOOSE n \in 1..4 : o[n] = c

\* The checks of an order from the n-th on, applied to a message: whether it
\* passes them, and the keys seen after it (the dedup check rejects a
\* message whose key was seen and adds the key of one it lets through).
RECURSIVE ApplyChecks(_, _, _, _)
ApplyChecks(o, n, msg, seen) ==
  IF n > 4 THEN [pass |-> TRUE, seen |-> seen]
  ELSE LET key == dedupeKey(msg.id, getTimestamp(msg))
           ok == IF o[n] = "role" THEN msg.role = "assistant"
                 ELSE IF o[n] = "tokens" THEN hasValidTokens(msg)
                 ELSE IF o[n] = "timestamp" THEN hasValidTimestamp(msg)
                 ELSE key \notin seen
       IN IF ~ok THEN [pass |-> FALSE, seen |-> seen]
          ELSE ApplyChecks(o, n + 1, msg,
                           IF o[n] = "dedup" THEN seen \cup {key} ELSE seen)

\* The positions of the messages that pass the checks applied in an order.
RECURSIVE Survivors(_, _, _)
Survivors(o, i, seen) ==
  IF i > Len(CvMsgs) THEN {}
  ELSE LET r == ApplyChecks(o, 1, CvMsgs[i], seen)
       IN (IF r.pass THEN {i} ELSE {}) \cup Survivors(o, i + 1, r.seen)

\* The lines of the messages that pass the checks applied in an order.
LinesInOrder(o) ==
  {convertMessage(CvMsgs[i], cv.session.info.id, cv.opt) : i \in Survivors(o, 1, {})}

\* C20 as stated: the set of lines convertSession returns is the set the
\* four checks give in every order of applying them.
C20_LinesSameInEveryOrder ==
  cv.state = "returned" =>
    \A o \in FilterOrders : LinesInOrder(o) = {cv.lines[k] : k \in DOMAIN cv.lines}

\* C20 amended: the set of lines convertSession returns is the set the four
\* checks give in every order that applies the dedup check after the role
\* check and the token check.
C20_LinesSameWhenDedupAfterRoleAndTokens ==
  cv.state = "returned" =>
    \A o \in FilterOrders :
      ( /\ PlaceOf(o, "dedup") > PlaceOf(o, "role")
        /\ PlaceOf(o, "dedup") > PlaceOf(o, "tokens") ) =>
        LinesInOrder(o) = {cv.lines[k] : k \in DOMAIN cv.lines}

\* C20 witness: a message without token activity and a billable message
\* share id and instant, a message has no instant, and the billable message
\* has its line.
C20_Witness ==
  /\ cv.state = "returned"
  /\ Len(CvMsgs) = 3
  /\ CvMsgs[1].role = "assistant" /\ ~hasValidTokens(CvMsgs[1])
  /\ Eligible(2)
  /\ SamePair(1, 2)
  /\ ~hasValidTimestamp(CvMsgs[3])
  /\ cv.kept = {2}

\* The position in the input of the message a line was pushed for.
OriginPos(line) == CHOOSE i \in cv.kept : Matches(line, i)

\* C21: the lines convertSession returns are in non-decreasing order of the
\* chosen instant of their messages, and lines with equal instants keep the
\* order their messages have in the input.
C21_LinesInInstantOrderStable ==
  cv.state = "returned" =>
    \A k1, k2 \in DOMAIN cv.lines :
      k1 < k2 =>
        LET i1 == OriginPos(cv.lines[k1])
            i2 == OriginPos(cv.lines[k2])
        IN /\ getTimestamp(CvMsgs[i1]) <= getTimestamp(CvMsgs[i2])
           /\ getTimestamp(CvMsgs[i1]) = getTimestamp(CvMsgs[i2]) => i1 < i2

\* The number of line feeds in a text.
LineFeeds(text) == Cardinality({i \in DOMAIN text : text[i] = "\n"})

\* The position of the k-th line feed of a text.
LineFeedAt(text, k) ==
  CHOOSE p \in DOMAIN text :
    /\ text[p] = "\n"
    /\ Cardinality({q \in 1..p : text[q] = "\n"}) = k

\* The records of a JSONL text: what stands before each line feed.
Records(text) ==
  [k \in 1..LineFeeds(text) |->
     SubSeq(text, IF k = 1 THEN 1 ELSE LineFeedAt(text, k - 1) + 1,
            LineFeedAt(text, k) - 1)]

\* C22: toJsonl of no line is the empty string; toJsonl of n >= 1 lines
\* ends with a line feed, holds exactly n line feeds, and what stands before
\* them is, in input order, the compact JSON of each line.
C22_JsonlIsOneTerminatedRecordPerLine ==
  lib.state = "returned" =>
    LET n == Len(lib.lines)
        out == lib.result
    IN /\ n = 0 => out = <<>>
       /\ n >= 1 =>
            /\ out[Len(out)] = "\n"
            /\ LineFeeds(out) = n
            /\ Records(out) =
                 [i \in 1..n |-> JSONStringify(lib.lines[i])]

\* C22 witness: toJsonl has returned the text of three lines, one of which
\* holds a working directory with a line feed in its name.
C22_Witness ==
  /\ lib.state = "returned"
  /\ Len(lib.lines) = 3
  /\ "cwd" \in DOMAIN lib.lines[2]
  /\ lib.lines[1] # lib.lines[3]
  /\ LineFeeds(lib.result) = 3

\* C22 witness for the empty input: toJsonl has returned the empty string.
C22_WitnessEmpty ==
  /\ lib.state = "returned"
  /\ lib.lines = <<>>
  /\ lib.result = <<>>

\* The entries of the storage under enumeration.
LsEntries == lib.storage.entries

\* Whether the entry at position i is a metadata file (its name ends with
\* .json) that is JSON text with every required field.
ValidEntry(i) ==
  /\ LsEntries[i].file.dotJson
  /\ LsEntries[i].file.json
  /\ RequiredFields \subseteq LsEntries[i].file.fields

\* Whether the entry at position i is a metadata file that is corrupt JSON
\* or lacks a required field.
DefectiveEntry(i) == LsEntries[i].file.dotJson /\ ~ValidEntry(i)

\* The number of items of the result that carry the id of the entry at i.
ReturnedFor(i) ==
  Cardinality({k \in DOMAIN lib.result : lib.result[k].id = LsEntries[i].file.id})

\* The number of entries that hold the same file as the entry at i.
CopiesOf(S, i) ==
  Cardinality({j \in S : LsEntries[j].file.id = LsEntries[i].file.id})

\* C23: the list listSessions returns is in non-decreasing order of
\* created, whatever the order of the entries in the enumeration and
\* whatever the order in which the reads ended.
C23_SessionsSortedByCreated ==
  (pc = "listSessions" /\ lib.state = "returned") =>
    \A k1, k2 \in DOMAIN lib.result :
      k1 < k2 => lib.result[k1].created <= lib.result[k2].created

\* C23 witness: the younger session is enumerated first, in another project
\* directory than the older one, the read of the older one ended first, and
\* the older session is returned first.
C23_Witness ==
  /\ pc = "listSessions"
  /\ lib.state = "returned"
  /\ Len(LsEntries) = 2
  /\ ValidEntry(1) /\ ValidEntry(2)
  /\ LsEntries[1].dir # LsEntries[2].dir
  /\ LsEntries[1].file.created > LsEntries[2].file.created
  /\ lib.firstEnded = 2
  /\ Len(lib.result) = 2
  /\ lib.result[1].id = LsEntries[2].file.id
  /\ lib.result[2].id = LsEntries[1].file.id

\* C24: when the storage can be enumerated, listSessions does not throw
\* whatever metadata file is corrupt or lacks a required field; no item is
\* returned for such a file; and, without since, an item is returned for
\* every valid metadata file.
C24_DefectiveFileLeftOutOthersReturned ==
  (pc = "listSessions" /\ lib.storage.kind = "ok") =>
    /\ lib.state # "threw"
    /\ lib.state = "returned" =>
         /\ \A i \in DOMAIN LsEntries : DefectiveEntry(i) => ReturnedFor(i) = 0
         /\ lib.since = NoInstant =>
              /\ \A i \in DOMAIN LsEntries :
                   ValidEntry(i) =>
                     ReturnedFor(i) =
                       CopiesOf({j \in DOMAIN LsEntries : ValidEntry(j)}, i)
              /\ \A k \in DOMAIN lib.result :
                   \E i \in DOMAIN LsEntries :
                     /\ ValidEntry(i)
                     /\ lib.result[k] = ParseStoredSession(LsEntries[i].file)

\* C24 witness: a project directory holds a defective metadata file between
\* a valid one of the same directory and a valid one of another directory;
\* both valid ones are returned.
C24_Witness ==
  /\ pc = "listSessions"
  /\ lib.state = "returned"
  /\ lib.since = NoInstant
  /\ Len(LsEntries) = 3
  /\ ValidEntry(1) /\ DefectiveEntry(2) /\ ValidEntry(3)
  /\ LsEntries[1].dir = LsEntries[2].dir
  /\ LsEntries[3].dir # LsEntries[2].dir
  /\ LsEntries[1].file.id # LsEntries[3].file.id
  /\ Len(lib.result) = 2

\* C25: listSessions called with since = X returns an item for a valid
\* metadata file if and only if its created is at or after X.
C25_SinceKeepsCreatedAtOrAfter ==
  (pc = "listSessions" /\ lib.state = "returned" /\ lib.storage.kind = "ok"
     /\ lib.since # NoInstant) =>
    LET kept == {i \in DOMAIN LsEntries :
                   ValidEntry(i) /\ LsEntries[i].file.created >= lib.since}
    IN /\ \A i \in DOMAIN LsEntries :
            ReturnedFor(i) = IF i \in kept THEN CopiesOf(kept, i) ELSE 0
       /\ Len(lib.result) = Cardinality(kept)

\* C25 witness: of a session created before since and one created at since,
\* only the second is returned.
C25_Witness ==
  /\ pc = "listSessions"
  /\ lib.state = "returned"
  /\ Len(LsEntries) = 2
  /\ ValidEntry(1) /\ ValidEntry(2)
  /\ LsEntries[1].file.created = lib.since
  /\ LsEntries[2].file.created < lib.since
  /\ Len(lib.result) = 1
  /\ lib.result[1].id = LsEntries[1].file.id

\* The writeFile calls of the run.
WriteCalls == {n \in DOMAIN calls : calls[n][1] = "writeFile"}

\* C26: two sessions of a run (their ids differ) have different output file
\* paths under every grouping strategy, and no path is written by more than
\* one iteration of the run.
C26_SessionPathsDistinct ==
  /\ \A i, j \in DOMAIN sessions :
       i # j =>
         /\ sessions[i].id # sessions[j].id
         /\ \A g \in GroupBys : OutFile(sessions[i], g) # OutFile(sessions[j], g)
  /\ \A m, n \in WriteCalls :
       m # n => /\ calls[m][2] # calls[n][2]
                /\ calls[m][3] # calls[n][3]

\* C26 witness: under the grouping by directory two sessions of the same
\* directory, so of the same output directory, have both been written, each
\* to its own file.
C26_Witness ==
  /\ pc = "done"
  /\ options.groupBy = "directory"
  /\ \E m, n \in WriteCalls :
       /\ m # n
       /\ ProjectDir(sessions[calls[m][2]], options.groupBy)
            = ProjectDir(sessions[calls[n][2]], options.groupBy)
       /\ calls[m][3] # calls[n][3]
       /\ \E f \in files : f.path = calls[m][3] /\ f.writer = calls[m][2]
       /\ \E f \in files : f.path = calls[n][3] /\ f.writer = calls[n][2]

\* The five options C27 is about.
DefaultedOptions ==
  {"includeReasoningInOutput", "overwrite", "groupBy", "dryRun", "verbose"}

\* C27: in the options createExportOptions returns to a subcommand, each of
\* includeReasoningInOutput, overwrite, groupBy, dryRun and verbose holds
\* the caller's value when the caller supplied one and otherwise its
\* default, and none of them is undefined.
C27_OptionsHoldCallerValueOrDefault ==
  (pc = "createExportOptions" /\ lib.state = "returned") =>
    \A k \in DefaultedOptions :
      /\ lib.result[k] # Undefined
      /\ lib.result[k] =
           IF k \in DOMAIN lib.overrides /\ lib.overrides[k] # Undefined
           THEN lib.overrides[k]
           ELSE OptionDefaults("out")[k]

\* The sessions stats accounts for: exported, skipped or failed.
Accounted(s) == s.sessionsExported + s.sessionsSkipped + Len(s.errors)

\* C28: when runExport has returned, sessionsExported + sessionsSkipped +
\* errors.length equals sessionsDiscovered; the loop has ended one iteration
\* for every discovered session, and each iteration has added exactly one to
\* that sum.
C28_EverySessionAccountedOnce ==
  pc = "done" =>
    /\ Accounted(stats) = stats.sessionsDiscovered
    /\ stats.sessionsDiscovered = Len(sessions)
    /\ Len(snapshots) = Len(sessions)
    /\ \A k \in DOMAIN snapshots : Accounted(snapshots[k]) = k

\* C28 witness: runExport has returned from a run over more than two
\* sessions of which some were exported and some failed.
C28_Witness ==
  /\ pc = "done"
  /\ Len(sessions) > 2
  /\ stats.sessionsExported > 0
  /\ Len(stats.errors) > 0
  /\ stats.sessionsSkipped = 0
  /\ Accounted(stats) = Len(sessions)

\* C28 witness for the third outcome: of two sessions one was skipped and
\* one failed.
C28_WitnessSkipped ==
  /\ pc = "done"
  /\ Len(sessions) = 2
  /\ stats.sessionsSkipped = 1
  /\ Len(stats.errors) = 1

\* Whether the iteration under way holds an export whose conversion ends
\* without a line.
EmptyConversion ==
  /\ pc = "export"
  /\ retry.state = "returned"
  /\ retry.result = "data"
  /\ LET result == convertSession(ExportOf(retry.kind, sessions[idx].id),
                                  options.includeReasoningInOutput)
     IN ~result.threw /\ Len(result.lines) = 0

\* C29: the step of runExport on a session whose export succeeded and whose
\* conversion gave no line adds one to sessionsSkipped and nothing to
\* sessionsExported and errors, adds the skipped count of the conversion to
\* messagesSkipped, calls no writeFile, leaves every file as it is, and
\* ends the iteration.
C29_EmptySessionSkippedNotWritten ==
  [][ EmptyConversion =>
        LET result == convertSession(ExportOf(retry.kind, sessions[idx].id),
                                     options.includeReasoningInOutput)
        IN /\ stats'.sessionsSkipped = stats.sessionsSkipped + 1
           /\ stats'.sessionsExported = stats.sessionsExported
           /\ stats'.errors = stats.errors
           /\ stats'.messagesSkipped = stats.messagesSkipped + result.skippedCount
           /\ stats'.messagesConverted = stats.messagesConverted
           /\ calls' = calls
           /\ files' = files
           /\ idx' = idx + 1
           /\ pc' \in {"mkdir", "done"} ]_vars

\* C29 witness: runExport has returned from a run over one session whose
\* conversion gave no line: the session is counted as skipped, its rejected
\* assistant message is counted, and neither a writeFile call nor a file
\* exists.
C29_Witness ==
  /\ pc = "done"
  /\ run = 1
  /\ Len(sessions) = 1
  /\ Called("exportSessionWithRetry", 1)
  /\ stats.sessionsSkipped = 1
  /\ stats.sessionsExported = 0
  /\ stats.errors = <<>>
  /\ stats.messagesSkipped = 1
  /\ WriteCalls = {}
  /\ files = {}

\* C30: exportSessionWithRetry awaits the 500 ms delay only between a
\* failed attempt and the attempt that follows it: none before the first
\* attempt, none after the last failed attempt, none after a success. While
\* an attempt is due as many delays as attempts have been made; during a
\* delay and after the return one delay less than attempts, every attempt
\* but the last one of a returned call having failed.
C30_DelaysOnlyBetweenAttempts ==
  /\ retry.waitedMs = RETRY_DELAY_MS * retry.delays
  /\ retry.state = "try" => retry.delays = retry.exportCalls
  /\ retry.state = "delay" =>
       /\ retry.delays = retry.exportCalls - 1
       /\ AttemptFails(retry.exportCalls)
       /\ retry.exportCalls <= retry.maxRetries
  /\ retry.state = "returned" =>
       /\ retry.delays = retry.exportCalls - 1
       /\ \A j \in 1..(retry.exportCalls - 1) : AttemptFails(j)

\* C30 witness: with maxRetries = 2 all three attempts failed; null was
\* returned after two delays, 1000 ms in all.
C30_Witness ==
  /\ retry.state = "returned"
  /\ retry.result = "null"
  /\ retry.maxRetries = 2
  /\ retry.exportCalls = 3
  /\ retry.delays = 2
  /\ retry.waitedMs = 2 * RETRY_DELAY_MS

\* C30 witness for a success: the first attempt succeeded and no delay was
\* awaited.
C30_WitnessNoDelay ==
  /\ retry.state = "returned"
  /\ retry.result = "data"
  /\ retry.exportCalls = 1
  /\ retry.delays = 0

====
